---------------------------- MODULE Spec2Model ----------------------------
(***************************************************************************)
(* Model of the device-object archive reader (DeviceObjectArchiveBase):    *)
(* the constructor that parses the header and the chunk table, the named   *)
(* resource directories, the shader table with its mutex-guarded cache,    *)
(* and the Unpack* operations that rebuild pipelines through a device.     *)
(*                                                                         *)
(* The reader is bound to one backend; per-backend arrays of the source    *)
(* (block base offsets, per-entry sizes and offsets) are modelled by the   *)
(* slot of that backend.  Unsigned 32-bit arithmetic is modelled on words  *)
(* of WordBits bits (scaled down so that sums stay inside TLC's integers). *)
(***************************************************************************)
EXTENDS Integers, Sequences, FiniteSets, TLC

(***************************************************************************)
(* Bounds of the model.                                                    *)
(***************************************************************************)
\* Number of application threads that call into one archive concurrently.
NumThreads == 2
\* Number of Unpack* calls one thread makes (object identities are
\* <<kind, thread, call, ...>>, so this bounds the objects ever created).
MaxCalls == 2
\* Number of Unpack* calls of one thread when threads run concurrently.
ConcCalls == 1

\* Calls the thread makes in the specification that varies the archive.
CtorCalls == 1

(***************************************************************************)
(* Program constants.                                                      *)
(***************************************************************************)
\* enum ChunkType (the values the constructor's switch dispatches on).
ChunkUndefined == 0
ArchiveDebugInfo == 1
ResourceSignature == 2
GraphicsPipelineStates == 3
ComputePipelineStates == 4
RayTracingPipelineStates == 5
TilePipelineStates == 6
RenderPass == 7
Shaders == 8
ChunkTypeCount == 9

\* Stand-ins for the compile-time header constants the constructor compares.
HeaderMagicNumber == 7
HeaderVersion == 2

\* sizeof(FileOffsetAndSize): two Uint32.
SizeofFileOffsetAndSize == 8

\* Width of the scaled-down unsigned word, and its modulus.
WordBits == 8
WordMod == 2 ^ WordBits

\* Uint32 addition as the code performs it (wraps).
AddU32(a, b) == (a + b) % WordMod

\* The named-resource chunk types, and the pipeline kinds among them.
NamedTypes == {ResourceSignature, GraphicsPipelineStates, ComputePipelineStates,
               RayTracingPipelineStates, TilePipelineStates, RenderPass}
PSOTypes == {GraphicsPipelineStates, ComputePipelineStates,
             RayTracingPipelineStates, TilePipelineStates}

\* Null object pointer, and a non-null pointer the caller left in an
\* out-parameter before the call.
Null == <<>>
Stale == <<"stale">>

\* The thread that runs the constructor.
CtorThread == 0

VARIABLES
    archive,        \* the immutable byte source (IArchive), decoded
    cfg,            \* the application: its threads and the calls they make
    ctor,           \* the constructor's position and outcome
    m_BaseOffsets,  \* block base offset of the reader's backend
    maps,           \* chunk type -> directory: name -> [Offset, Size, pRes]
    m_Shaders,      \* the shader table: sequence of [Offset, Size, pRes]
    m_ShadersGuard, \* set of threads holding the shader mutex (0 or 1 element)
    th,             \* per-thread call frame
    hist,           \* history of device calls (observation only)
    ser             \* the serialization device: a call of
                    \* GetPipelineResourceBindings and m_ResourceBindings

vars == <<archive, cfg, ctor, m_BaseOffsets, maps, m_Shaders, m_ShadersGuard, th, hist, ser>>


(***************************************************************************)
(* The archive file.  Chunk data, entry data and per-backend data are kept *)
(* decoded: a chunk carries the data found at its offset, Common maps the  *)
(* offset of a directory entry to the entry stored there, ShaderList and   *)
(* ShaderTypes are the shader list block and the shaders' serialized type. *)
(***************************************************************************)
\* One resource entry of the common block: its header (type tag and the
\* backend's size and offset) and the serialized create-info tail.
Entry(type, devSize, devOffset, rpName, sigCount, prsNames, shaderIdx, groups) ==
    [Type |-> type, DevSize |-> devSize, DevOffset |-> devOffset,
     RenderPassName |-> rpName, ResourceSignaturesCount |-> sigCount,
     PRSNames |-> prsNames, ShaderIndices |-> shaderIdx, GeneralShaders |-> groups,
     TriangleHitShaders |-> <<>>, ProceduralHitShaders |-> <<>>]

\* The shader index a ray-tracing group stores for a field without a shader.
NoShaderIndex == WordMod - 1

\* The ray-tracing entry R1: two shaders, one general group per kind of
\* stored index, a triangle-hit group <<closest hit, any hit>> and a
\* procedural-hit group <<intersection, closest hit, any hit>>.
RayTracingEntry ==
    [Entry(RayTracingPipelineStates, 4, 52, "", 1, <<"S1">>, <<4, 0>>,
           <<0, NoShaderIndex, 1>>)
       EXCEPT !.TriangleHitShaders = <<<<1, NoShaderIndex>>, <<0, 1>>>>,
              !.ProceduralHitShaders = <<<<NoShaderIndex, 0, 1>>>>]

\* Names of the directories of the archive used by the Unpack* scenarios.
MainCommon ==
    <<Entry(ResourceSignature,        4, 40, "",    0, <<>>,       <<>>,     <<>>),   \* 1  S1
      Entry(RenderPass,               0,  0, "",    0, <<>>,       <<>>,     <<>>),   \* 2  RP1
      Entry(GraphicsPipelineStates,   4, 44, "RP1", 1, <<"S1">>,   <<0, 1>>, <<>>),   \* 3  G1
      Entry(GraphicsPipelineStates,   4, 48, "",    0, <<"S1">>,   <<0>>,    <<>>),   \* 4  G2
      Entry(ComputePipelineStates,    4, 52, "",    1, <<"S1">>,   <<2>>,    <<>>),   \* 5  C1
      Entry(TilePipelineStates,       4, 52, "",    1, <<"S1">>,   <<3>>,    <<>>),   \* 6  T1
      RayTracingEntry,                                                                \* 7  R1
      Entry(GraphicsPipelineStates,   0,  0, "",    1, <<"S1">>,   <<0>>,    <<>>),   \* 8  GZero
      Entry(GraphicsPipelineStates,   4, 70, "",    1, <<"S1">>,   <<0>>,    <<>>),   \* 9  GOob
      Entry(GraphicsPipelineStates,   4, 44, "",    1, <<"S1">>,   <<0, 9>>, <<>>),   \* 10 GIdx
      Entry(ComputePipelineStates,    4, 44, "",    1, <<"S1">>,   <<2>>,    <<>>),   \* 11 GType
      Entry(GraphicsPipelineStates,   4, 44, "",    1, <<"S1">>,   <<2>>,    <<>>),   \* 12 GCs
      Entry(GraphicsPipelineStates,   4, 44, "RPx", 1, <<"S1">>,   <<0>>,    <<>>),   \* 13 GRp
      Entry(GraphicsPipelineStates,   4, 44, "",    1, <<"Sx">>,   <<0>>,    <<>>),   \* 14 GSig
      Entry(RayTracingPipelineStates, 0,  0, "",    1, <<"S1">>,   <<4>>,    <<0>>)>> \* 15 RZero

NameEntry(name, offset) == [Name |-> name, Offset |-> offset, Size |-> 1]

MainChunks ==
    <<[Type |-> ArchiveDebugInfo, Data |-> [APIVersion |-> 1, GitHash |-> "h"]],
      [Type |-> ResourceSignature, Data |-> <<NameEntry("S1", 1)>>],
      [Type |-> RenderPass, Data |-> <<NameEntry("RP1", 2)>>],
      [Type |-> GraphicsPipelineStates,
       Data |-> <<NameEntry("G1", 3), NameEntry("G2", 4), NameEntry("GZero", 8),
                  NameEntry("GOob", 9), NameEntry("GIdx", 10), NameEntry("GType", 11),
                  NameEntry("GCs", 12), NameEntry("GRp", 13), NameEntry("GSig", 14)>>],
      [Type |-> ComputePipelineStates, Data |-> <<NameEntry("C1", 5)>>],
      [Type |-> TilePipelineStates, Data |-> <<NameEntry("T1", 6)>>],
      [Type |-> RayTracingPipelineStates, Data |-> <<NameEntry("R1", 7), NameEntry("RZero", 15)>>],
      [Type |-> Shaders, Data |-> [Size |-> 40, Offset |-> 0]]>>

MainShaderList ==
    <<[Offset |-> 40, Size |-> 2], [Offset |-> 42, Size |-> 2], [Offset |-> 44, Size |-> 2],
      [Offset |-> 46, Size |-> 2], [Offset |-> 48, Size |-> 2]>>

MainShaderTypes == <<"VERTEX", "PIXEL", "COMPUTE", "TILE", "RAY_GEN">>

\* The archive of the Unpack* scenarios: a well-formed header and chunk table,
\* and directories that hold sound entries next to damaged ones.
MainArchive ==
    [MagicNumber |-> HeaderMagicNumber, Version |-> HeaderVersion,
     BlockBaseOffset |-> 40, Size |-> 100,
     Chunks |-> MainChunks, Common |-> MainCommon,
     ShaderList |-> MainShaderList, ShaderTypes |-> MainShaderTypes]

Min(a, b) == IF a <= b THEN a ELSE b

EmptyDir == [n \in {} |-> Null]


(***************************************************************************)
(* Helpers of the reader.                                                  *)
(***************************************************************************)
\* HeaderType::GetEndOffset: offset + size of the backend's data, in Uint32.
GetEndOffset(Header) == AddU32(Header.Offset, Header.Size)

\* GetDeviceSpecificData, mutated: the end of the data is not compared with
\* the size of the archive.
GetDeviceSpecificData_NoRangeCheck(Header, readOk) ==
    LET BaseOffset  == m_BaseOffsets
        ArchiveSize == archive.Size
    IN  IF BaseOffset > ArchiveSize
          THEN [ok |-> FALSE, err |-> "NoBlock", At |-> 0, Size |-> 0, read |-> FALSE]
        ELSE IF Header.Size = 0
          THEN [ok |-> FALSE, err |-> "MissingBackendData", At |-> 0, Size |-> 0, read |-> FALSE]
        ELSE IF ~readOk
          THEN [ok |-> FALSE, err |-> "IoError", At |-> AddU32(BaseOffset, Header.Offset),
                Size |-> Header.Size, read |-> TRUE]
        ELSE [ok |-> TRUE, err |-> "", At |-> AddU32(BaseOffset, Header.Offset),
              Size |-> Header.Size, read |-> TRUE]

\* GetDeviceSpecificData, mutated: a block of size zero is read like any other.
GetDeviceSpecificData_NoSizeCheck(Header, readOk) ==
    LET BaseOffset  == m_BaseOffsets
        ArchiveSize == archive.Size
    IN  IF BaseOffset > ArchiveSize
          THEN [ok |-> FALSE, err |-> "NoBlock", At |-> 0, Size |-> 0, read |-> FALSE]
        ELSE IF AddU32(BaseOffset, GetEndOffset(Header)) > ArchiveSize
          THEN [ok |-> FALSE, err |-> "InvalidOffset", At |-> 0, Size |-> 0, read |-> FALSE]
        ELSE IF ~readOk
          THEN [ok |-> FALSE, err |-> "IoError", At |-> AddU32(BaseOffset, Header.Offset),
                Size |-> Header.Size, read |-> TRUE]
        ELSE [ok |-> TRUE, err |-> "", At |-> AddU32(BaseOffset, Header.Offset),
              Size |-> Header.Size, read |-> TRUE]

\* DeviceObjectArchiveBase::GetDeviceSpecificData.  readOk is the outcome of
\* the byte source's Read.  The result carries the range that was read.
GetDeviceSpecificData(Header, readOk) ==
    LET BaseOffset  == m_BaseOffsets
        ArchiveSize == archive.Size
    IN  IF BaseOffset > ArchiveSize
          THEN [ok |-> FALSE, err |-> "NoBlock", At |-> 0, Size |-> 0, read |-> FALSE]
        ELSE IF Header.Size = 0
          THEN [ok |-> FALSE, err |-> "MissingBackendData", At |-> 0, Size |-> 0, read |-> FALSE]
        ELSE IF AddU32(BaseOffset, GetEndOffset(Header)) > ArchiveSize
          THEN [ok |-> FALSE, err |-> "InvalidOffset", At |-> 0, Size |-> 0, read |-> FALSE]
        ELSE IF ~readOk
          THEN [ok |-> FALSE, err |-> "IoError", At |-> AddU32(BaseOffset, Header.Offset),
                Size |-> Header.Size, read |-> TRUE]
        ELSE [ok |-> TRUE, err |-> "", At |-> AddU32(BaseOffset, Header.Offset),
              Size |-> Header.Size, read |-> TRUE]

\* OffsetSizeAndResourceMap::Insert, applied to every entry of a name table.
\* A name that is already present is rejected.
RECURSIVE InsertAll(_, _)
InsertAll(dir, entries) ==
    IF entries = <<>> THEN [ok |-> TRUE, dir |-> dir]
    ELSE LET e == Head(entries)
         IN  IF e.Name \in DOMAIN dir THEN [ok |-> FALSE, dir |-> dir]
             ELSE InsertAll(dir @@ (e.Name :> [Offset |-> e.Offset, Size |-> e.Size, pRes |-> Null]),
                            Tail(entries))

\* OffsetSizeAndResourceMap::GetResource: the cached object of a name, if any.
GetResource(dir, name) == IF name \in DOMAIN dir THEN dir[name].pRes ELSE Null

\* OffsetSizeAndResourceMap::SetResource: install an object in a name's slot.
SetResource(dir, name, obj) ==
    IF name \in DOMAIN dir THEN [dir EXCEPT ![name].pRes = obj] ELSE dir

\* The shader table entries ReadIndexedResources appends for a block of
\* DataSize bytes.
ShaderTableOf(DataSize) ==
    LET Count == Min(DataSize \div SizeofFileOffsetAndSize, Len(archive.ShaderList))
    IN  [k \in 1..Count |-> [Offset |-> archive.ShaderList[k].Offset,
                             Size |-> archive.ShaderList[k].Size, pRes |-> Null]]

(***************************************************************************)
(* The constructor.                                                        *)
(***************************************************************************)
CtorFail(e) == [ctor EXCEPT !.pc = "failed", !.err = e]

\* HeaderError, mutated: a version above the compiled one is accepted.
HeaderError_NewerAccepted(MagicNumber, Version) ==
    IF MagicNumber # HeaderMagicNumber THEN "BadMagic"
    ELSE IF Version < HeaderVersion THEN "UnsupportedVersion"
    ELSE ""

\* Lines 54-61: the two checks of the header that was read ("": it passes).
HeaderError(MagicNumber, Version) ==
    IF MagicNumber # HeaderMagicNumber THEN "BadMagic"
    ELSE IF Version # HeaderVersion THEN "UnsupportedVersion"
    ELSE ""

\* Lines 47-64: read and validate the fixed header, keep the base offsets.
CtorReadHeader ==
    /\ ctor.pc = "ReadHeader"
    /\ \E readOk \in cfg.ReadOutcomes :
         IF ~readOk THEN
              /\ ctor' = CtorFail("IoError")
              /\ UNCHANGED m_BaseOffsets
         ELSE IF HeaderError(archive.MagicNumber, archive.Version) # "" THEN
              /\ ctor' = CtorFail(HeaderError(archive.MagicNumber, archive.Version))
              /\ UNCHANGED m_BaseOffsets
         ELSE /\ ctor' = [ctor EXCEPT !.pc = "ReadChunks"]
              /\ m_BaseOffsets' = archive.BlockBaseOffset
    /\ UNCHANGED <<archive, cfg, ser, maps, m_Shaders, m_ShadersGuard, th, hist>>

\* Lines 66-71: read the chunk headers.
CtorReadChunks ==
    /\ ctor.pc = "ReadChunks"
    /\ \E readOk \in cfg.ReadOutcomes :
         IF ~readOk THEN ctor' = CtorFail("IoError")
         ELSE ctor' = [ctor EXCEPT !.pc = "ProcessChunks", !.Chunks = archive.Chunks, !.i = 1]
    /\ UNCHANGED <<archive, cfg, ser, m_BaseOffsets, maps, m_Shaders, m_ShadersGuard, th, hist>>

\* AlreadyProcessed, mutated: the bit of the chunk's type is not looked at.
AlreadyProcessed_Ignored(ProcessedBits, Type) == FALSE

\* Line 76: the bit of the chunk's type in the set of processed types.
AlreadyProcessed(ProcessedBits, Type) == Type \in ProcessedBits

\* Lines 73-98: one iteration of the chunk loop, with the reader it dispatches
\* to (ReadArchiveDebugInfo, ReadNamedResources, ReadIndexedResources up to
\* the point where it takes the shader mutex).
CtorProcessChunk ==
    /\ ctor.pc = "ProcessChunks"
    /\ \E readOk \in cfg.ReadOutcomes, ubBit \in BOOLEAN :
         IF ctor.i > Len(ctor.Chunks) THEN
              /\ ctor' = [ctor EXCEPT !.pc = "ok"]
              /\ UNCHANGED <<maps, m_ShadersGuard>>
         ELSE LET Chunk == ctor.Chunks[ctor.i]
                  next  == [ctor EXCEPT !.i = @ + 1,
                                        !.ProcessedBits = @ \cup {Chunk.Type},
                                        !.Dispatched = Append(@, Chunk.Type)]
                  \* the reader the chunk was dispatched to throws
                  ReaderFail(e) == [ctor EXCEPT !.pc = "failed", !.err = e,
                                                !.ProcessedBits = @ \cup {Chunk.Type},
                                                !.Dispatched = Append(@, Chunk.Type)]
              IN
              IF Chunk.Type >= ChunkTypeCount THEN
                   \* std::bitset::operator[] past the end: the bit read is arbitrary
                   /\ ctor' = [CtorFail(IF ubBit THEN "DuplicateChunk" ELSE "UnknownChunkType")
                                 EXCEPT !.ub = TRUE]
                   /\ UNCHANGED <<maps, m_ShadersGuard>>
              ELSE IF AlreadyProcessed(ctor.ProcessedBits, Chunk.Type) THEN
                   /\ ctor' = CtorFail("DuplicateChunk")
                   /\ UNCHANGED <<maps, m_ShadersGuard>>
              ELSE IF Chunk.Type = ArchiveDebugInfo THEN
                   /\ ctor' = IF readOk THEN next ELSE ReaderFail("IoError")
                   /\ UNCHANGED <<maps, m_ShadersGuard>>
              ELSE IF Chunk.Type \in NamedTypes THEN
                   LET r == InsertAll(maps[Chunk.Type], Chunk.Data)
                   IN  IF ~readOk THEN
                            /\ ctor' = ReaderFail("IoError")
                            /\ UNCHANGED <<maps, m_ShadersGuard>>
                       ELSE IF ~r.ok THEN
                            /\ ctor' = ReaderFail("DuplicateName")
                            /\ UNCHANGED <<maps, m_ShadersGuard>>
                       ELSE /\ ctor' = next
                            /\ maps' = [maps EXCEPT ![Chunk.Type] = r.dir]
                            /\ UNCHANGED m_ShadersGuard
              ELSE IF Chunk.Type = Shaders THEN
                   \E dataOk \in cfg.ReadOutcomes :
                     LET d == GetDeviceSpecificData(Chunk.Data, dataOk)
                     IN  IF ~readOk THEN
                              /\ ctor' = ReaderFail("IoError")
                              /\ UNCHANGED <<maps, m_ShadersGuard>>
                         ELSE IF ~d.ok THEN
                              /\ ctor' = next
                              /\ UNCHANGED <<maps, m_ShadersGuard>>
                         ELSE /\ ctor' = [next EXCEPT !.pc = "ReadIndexedResources",
                                                      !.DataSize = d.Size]
                              /\ m_ShadersGuard' = m_ShadersGuard \cup {CtorThread}
                              /\ UNCHANGED maps
              ELSE /\ ctor' = CtorFail("UnknownChunkType")
                   /\ UNCHANGED <<maps, m_ShadersGuard>>
    /\ UNCHANGED <<archive, cfg, ser, m_BaseOffsets, m_Shaders, th, hist>>

\* Lines 181-185: under the shader mutex, append the entries; the lock is
\* released when the function returns.
ReadIndexedResources ==
    /\ ctor.pc = "ReadIndexedResources"
    /\ CtorThread \in m_ShadersGuard
    /\ m_Shaders' = m_Shaders \o ShaderTableOf(ctor.DataSize)
    /\ m_ShadersGuard' = m_ShadersGuard \ {CtorThread}
    /\ ctor' = [ctor EXCEPT !.pc = "ProcessChunks"]
    /\ UNCHANGED <<archive, cfg, ser, m_BaseOffsets, maps, th, hist>>

CtorNext == CtorReadHeader \/ CtorReadChunks \/ CtorProcessChunk \/ ReadIndexedResources

CtorInit ==
    [pc |-> "ReadHeader", err |-> "", i |-> 0, Chunks |-> <<>>, ProcessedBits |-> {},
     DataSize |-> 0, ub |-> FALSE, Dispatched |-> <<>>]


(***************************************************************************)
(* Call frames of the application threads.                                 *)
(***************************************************************************)
NoPSO == [pHeader |-> [Type |-> 0, Size |-> 0, Offset |-> 0], RenderPassName |-> "",
          PRSNames |-> <<>>, ShaderIndices |-> <<>>, CreateInfo |-> Null, Saved |-> Null]

IdleFrame ==
    [pc |-> "idle", calls |-> 0, op |-> "none", Type |-> 0, Name |-> "", cb |-> "absent",
     out0 |-> Null, out |-> Null, slot0 |-> Null, status |-> "none", err |-> "", PSO |-> NoPSO, i |-> 0,
     Shaders |-> <<>>, pShader |-> Null, rpName |-> "", log |-> <<>>, prior |-> {}]

\* PIPELINE_TYPE of the pipelines stored under a chunk type.
PipelineTypeOf(type) ==
    CASE type = GraphicsPipelineStates -> 0
      [] type = ComputePipelineStates -> 1
      [] type = RayTracingPipelineStates -> 3
      [] type = TilePipelineStates -> 4
      [] OTHER -> 5

\* PSOSerializer::SerializePSOCreateInfo followed by lines 321-327 of
\* ReadPSOData: the decoded create-info of an entry.
SerializePSOCreateInfo(e) ==
    [PipelineType |-> PipelineTypeOf(e.Type),
     ResourceLayout |-> [DefaultVariableType |-> 0, Variables |-> <<1, 2>>,
                         ImmutableSamplers |-> <<5>>],
     ResourceSignaturesCount |-> IF e.ResourceSignaturesCount = 0 THEN 1
                                 ELSE e.ResourceSignaturesCount,
     ppResourceSignatures |-> <<>>,
     Flags |-> {"DONT_REMAP_SHADER_RESOURCES"}
               \cup (IF e.ResourceSignaturesCount = 0 THEN {"IMPLICIT_SIGNATURE0"} ELSE {}),
     pRenderPass |-> Null, Shaders |-> <<>>,
     GeneralShaders |-> e.GeneralShaders, TriangleHitShaders |-> e.TriangleHitShaders,
     ProceduralHitShaders |-> e.ProceduralHitShaders, SampleMask |-> 0]

\* UnpackOrder, mutated: the signatures are resolved before the render pass.
UnpackOrder_SignaturesFirst(type) ==
    IF type = GraphicsPipelineStates
    THEN <<"CreateResourceSignatures", "CreateRenderPass", "UnpackDeviceData">>
    ELSE <<"CreateResourceSignatures", "UnpackDeviceData">>

\* The order in which an Unpack*PSO function resolves what the pipeline
\* refers to before it loads the shaders (lines 526-543 for graphics; the
\* other kinds have no render pass, lines 589-602, 634-647, 684-697).
UnpackOrder(type) ==
    IF type = GraphicsPipelineStates
    THEN <<"CreateRenderPass", "CreateResourceSignatures", "UnpackDeviceData">>
    ELSE <<"CreateResourceSignatures", "UnpackDeviceData">>

\* The stage that follows `stage` in the Unpack*PSO function of `type`.
StageAfter(type, stage) ==
    LET order == UnpackOrder(type)
        k     == CHOOSE j \in DOMAIN order : order[j] = stage
    IN  order[k + 1]

\* A call that ends: the frame keeps the outcome until the thread returns.
Done(f, status, err) == [f EXCEPT !.pc = "done", !.status = status, !.err = err]

Emit(f, ev) == [f EXCEPT !.log = Append(@, ev)]

Ready(t) == ctor.pc = "ok" /\ t \in cfg.Threads

\* The objects that unpacks without a callback have constructed and installed
\* under a name so far (observation only).
UnpackedBefore(type, name) == {u[3] : u \in {v \in hist.unpacked : v[1] = type /\ v[2] = name}}

\* The history after an unpack without a callback installed obj under a name.
NoteUnpacked(cb, type, name, obj) ==
    IF cb = "absent" /\ obj # Null
    THEN [hist EXCEPT !.unpacked = @ \cup {<<type, name, obj>>}]
    ELSE hist

\* Unpack{Graphics,Compute,Tile,RayTracing}PSO, first statement (lines 522,
\* 585, 630, 676): without a mutation callback the directory cache is
\* consulted and a cached pipeline is returned.
UnpackPSO(t) ==
    /\ Ready(t)
    /\ th[t].pc = "idle"
    /\ th[t].calls < cfg.Calls
    /\ \E c \in cfg.Menu :
         /\ c.op = "pso"
         /\ LET f == [IdleFrame EXCEPT !.calls = th[t].calls + 1, !.op = "pso",
                                       !.Type = c.Type, !.Name = c.Name, !.cb = c.cb,
                                       !.out0 = c.out0, !.out = c.out0,
                                       !.slot0 = GetResource(maps[c.Type], c.Name),
                                       !.prior = UnpackedBefore(c.Type, c.Name)]
                cached == GetResource(maps[c.Type], c.Name)
            IN  th' = [th EXCEPT ![t] =
                         IF c.cb = "absent" /\ cached # Null
                         THEN Done([f EXCEPT !.out = cached], "cached", "")
                         ELSE [f EXCEPT !.pc = "ReadPSOData"]]
    /\ UNCHANGED <<archive, cfg, ser, ctor, m_BaseOffsets, maps, m_Shaders, m_ShadersGuard, hist>>

\* LoadResourceData with the lambda of ReadPSOData (lines 188-213, 298-331).
ReadPSOData(t) ==
    /\ th[t].pc = "ReadPSOData"
    /\ \E readOk \in cfg.ReadOutcomes :
         LET f   == th[t]
             dir == maps[f.Type]
         IN  th' = [th EXCEPT ![t] =
               IF f.Name \notin DOMAIN dir THEN Done(f, "failed", "NotFound")
               ELSE IF ~readOk THEN Done(Emit(f, "Read"), "failed", "IoError")
               ELSE LET e == archive.Common[dir[f.Name].Offset]
                    IN  IF e.Type # f.Type THEN Done(Emit(f, "Read"), "failed", "TypeMismatch")
                        ELSE [Emit(f, "Read") EXCEPT
                                !.PSO = [pHeader |-> [Type |-> e.Type, Size |-> e.DevSize,
                                                      Offset |-> e.DevOffset],
                                         RenderPassName |-> e.RenderPassName,
                                         PRSNames |-> e.PRSNames,
                                         ShaderIndices |-> e.ShaderIndices,
                                         CreateInfo |-> SerializePSOCreateInfo(e),
                                         Saved |-> Null],
                                !.i = 1,
                                !.pc = UnpackOrder(f.Type)[1]]]
    /\ UNCHANGED <<archive, cfg, ser, ctor, m_BaseOffsets, maps, m_Shaders, m_ShadersGuard, hist>>

\* UnpackRenderPass called by the application (line 745-750).
UnpackRenderPass(t) ==
    /\ Ready(t)
    /\ th[t].pc = "idle"
    /\ th[t].calls < cfg.Calls
    /\ \E c \in cfg.Menu :
         /\ c.op = "rp"
         /\ LET f == [IdleFrame EXCEPT !.calls = th[t].calls + 1, !.op = "rp",
                                       !.Type = RenderPass, !.Name = c.Name, !.cb = c.cb,
                                       !.out0 = c.out0, !.out = c.out0, !.rpName = c.Name,
                                       !.slot0 = GetResource(maps[RenderPass], c.Name),
                                       !.prior = UnpackedBefore(RenderPass, c.Name)]
                cached == GetResource(maps[RenderPass], c.Name)
            IN  th' = [th EXCEPT ![t] =
                         IF c.cb = "absent" /\ cached # Null
                         THEN Done([f EXCEPT !.out = cached], "cached", "")
                         ELSE [f EXCEPT !.pc = "ReadRPData"]]
    /\ UNCHANGED <<archive, cfg, ser, ctor, m_BaseOffsets, maps, m_Shaders, m_ShadersGuard, hist>>

\* CreateRenderPass (lines 342-360) up to the cache lookup of the nested
\* UnpackRenderPass; a pipeline without a render pass name skips it.
CreateRenderPass(t) ==
    /\ th[t].pc = "CreateRenderPass"
    /\ LET f == th[t]
           cached == GetResource(maps[RenderPass], f.PSO.RenderPassName)
       IN  th' = [th EXCEPT ![t] =
             IF f.PSO.RenderPassName = ""
               THEN [f EXCEPT !.pc = StageAfter(f.Type, "CreateRenderPass")]
             ELSE IF cached # Null
               THEN [Emit(f, "UnpackRenderPass") EXCEPT
                       !.PSO.CreateInfo.pRenderPass = cached,
                       !.pc = StageAfter(f.Type, "CreateRenderPass")]
             ELSE [Emit(f, "UnpackRenderPass") EXCEPT
                       !.rpName = f.PSO.RenderPassName, !.pc = "ReadRPData"]]
    /\ UNCHANGED <<archive, cfg, ser, ctor, m_BaseOffsets, maps, m_Shaders, m_ShadersGuard, hist>>

\* LoadResourceData with the lambda of ReadRPData (lines 276-295).
ReadRPData(t) ==
    /\ th[t].pc = "ReadRPData"
    /\ \E readOk \in cfg.ReadOutcomes :
         LET f   == th[t]
             dir == maps[RenderPass]
         IN  th' = [th EXCEPT ![t] =
               IF f.rpName \notin DOMAIN dir THEN Done(f, "failed", "NotFound")
               ELSE IF ~readOk THEN Done(Emit(f, "Read"), "failed", "IoError")
               ELSE IF archive.Common[dir[f.rpName].Offset].Type # RenderPass
                 THEN Done(Emit(f, "Read"), "failed", "TypeMismatch")
               ELSE [Emit(f, "Read") EXCEPT !.pc = "DeviceCreateRenderPass"]]
    /\ UNCHANGED <<archive, cfg, ser, ctor, m_BaseOffsets, maps, m_Shaders, m_ShadersGuard, hist>>

\* The device's Create* functions clear the out-parameter and write the new
\* object only when construction succeeds.
DeviceCreate(ok, obj) == IF ok THEN obj ELSE Null

\* UnpackRenderPass lines 756-762: the optional callback, the device call and
\* the installation in the directory; then the return into the application
\* or into CreateRenderPass (lines 353-359).
DeviceCreateRenderPass(t) ==
    /\ th[t].pc = "DeviceCreateRenderPass"
    /\ \E devOk \in cfg.DeviceOutcomes :
         LET f0  == th[t]
             nested == f0.op = "pso"
             rpCb == IF nested THEN "absent" ELSE f0.cb
             f   == Emit(IF rpCb = "absent" THEN f0 ELSE Emit(f0, "Callback"),
                         "CreateRenderPass")
             pRP == DeviceCreate(devOk, <<"rp", t, f.calls>>)
         IN  /\ maps' = IF rpCb = "absent"
                        THEN [maps EXCEPT ![RenderPass] = SetResource(@, f.rpName, pRP)]
                        ELSE maps
             /\ th' = [th EXCEPT ![t] =
                  IF nested THEN
                       IF pRP = Null THEN Done(f, "failed", "DeviceConstructionFailed")
                       ELSE [f EXCEPT !.PSO.CreateInfo.pRenderPass = pRP,
                                      !.pc = StageAfter(f.Type, "CreateRenderPass")]
                  ELSE Done([f EXCEPT !.out = pRP],
                            IF pRP = Null THEN "failed" ELSE "ok",
                            IF pRP = Null THEN "DeviceConstructionFailed" ELSE "")]
             /\ hist' = NoteUnpacked(rpCb, RenderPass, f.rpName, pRP)
    /\ UNCHANGED <<archive, cfg, ser, ctor, m_BaseOffsets, m_Shaders, m_ShadersGuard>>


\* IDearchiver::UnpackResourceSignature of the backend, as the pipelines use
\* it: the signature cached under the name, or a newly constructed one that
\* is then cached; null when the name is absent or construction fails.
UnpackResourceSignature(dir, name, ok, fresh) ==
    IF name \notin DOMAIN dir THEN Null
    ELSE IF dir[name].pRes # Null THEN dir[name].pRes
    ELSE IF ok THEN fresh ELSE Null

\* CreateResourceSignatures (lines 362-390), one iteration of its loop.
CreateResourceSignatures(t) ==
    /\ th[t].pc = "CreateResourceSignatures"
    /\ \E ok \in cfg.DeviceOutcomes :
         LET f    == Emit(th[t], "UnpackResourceSignature")
             name == f.PSO.PRSNames[f.i]
             pSignature == UnpackResourceSignature(maps[ResourceSignature], name, ok,
                                                   <<"prs", t, f.calls, f.i>>)
             last == f.i >= f.PSO.CreateInfo.ResourceSignaturesCount
         IN  /\ maps' = [maps EXCEPT ![ResourceSignature] = SetResource(@, name, pSignature)]
             /\ th' = [th EXCEPT ![t] =
                  IF pSignature = Null THEN Done(f, "failed", "SignatureFailed")
                  ELSE [f EXCEPT !.PSO.CreateInfo.ppResourceSignatures = Append(@, pSignature),
                                 !.i = IF last THEN 1 ELSE @ + 1,
                                 !.pc = IF last
                                        THEN StageAfter(f.Type, "CreateResourceSignatures")
                                        ELSE "CreateResourceSignatures"]]
    /\ UNCHANGED <<archive, cfg, ser, ctor, m_BaseOffsets, m_Shaders, m_ShadersGuard, hist>>

\* Lines 540-543 (and 599-602, 644-647, 694-697): fetch the backend's block
\* of the pipeline entry.
UnpackDeviceData(t) ==
    /\ th[t].pc = "UnpackDeviceData"
    /\ \E readOk \in cfg.ReadOutcomes :
         LET f == th[t]
             d == GetDeviceSpecificData(f.PSO.pHeader, readOk)
             g == IF d.read THEN Emit(f, "Read") ELSE f
         IN  th' = [th EXCEPT ![t] =
               IF ~d.ok THEN Done(g, "failed", d.err)
               ELSE [g EXCEPT !.pc = "LoadShaders"]]
    /\ UNCHANGED <<archive, cfg, ser, ctor, m_BaseOffsets, maps, m_Shaders, m_ShadersGuard, hist>>

\* Where LoadShaders continues after the shader at position f.i is settled.
NextShader(f) ==
    IF f.i >= Len(f.PSO.ShaderIndices)
    THEN [f EXCEPT !.pc = "SetShaders", !.i = 1, !.pShader = Null]
    ELSE [f EXCEPT !.pc = "LoadShaders_Lock", !.i = @ + 1, !.pShader = Null]

\* LoadShaders lines 407-419: the block check, the index list, the result
\* vector of null pointers.
LoadShaders(t) ==
    /\ th[t].pc = "LoadShaders"
    /\ LET f == th[t]
           n == Len(f.PSO.ShaderIndices)
       IN  th' = [th EXCEPT ![t] =
             IF m_BaseOffsets > archive.Size THEN Done(f, "failed", "NoBlock")
             ELSE IF n = 0 THEN [f EXCEPT !.pc = "SetShaders", !.i = 1]
             ELSE [f EXCEPT !.Shaders = [k \in 1..n |-> Null], !.i = 1,
                            !.pc = "LoadShaders_Lock"]]
    /\ UNCHANGED <<archive, cfg, ser, ctor, m_BaseOffsets, maps, m_Shaders, m_ShadersGuard, hist>>

\* Line 427: std::unique_lock ReadLock{m_ShadersGuard}.
LoadShaders_Lock(t) ==
    /\ th[t].pc = "LoadShaders_Lock"
    /\ m_ShadersGuard = {}
    /\ m_ShadersGuard' = {t}
    /\ th' = [th EXCEPT ![t].pc = "LoadShaders_Lookup"]
    /\ UNCHANGED <<archive, cfg, ser, ctor, m_BaseOffsets, maps, m_Shaders, hist>>

\* ReadLockReleased, mutated: the lock outlives the lookup.
ReadLockReleased_Kept(t) == m_ShadersGuard

\* The mutex when the scope of ReadLock ends (lines 430, 436, 440).
ReadLockReleased(t) == m_ShadersGuard \ {t}

\* CachedShader, mutated: the lookup never finds the cached shader.
CachedShader_Miss(Idx) == Null

\* Line 433: the cached shader of a table entry, null when there is none.
CachedShader(Idx) == m_Shaders[Idx + 1].pRes

\* Lines 429-440: under the lock, the range check, the cache lookup and the
\* snapshot of the entry; the lock is released on each way out.
LoadShaders_Lookup(t) ==
    /\ th[t].pc = "LoadShaders_Lookup"
    /\ t \in m_ShadersGuard
    /\ LET f   == th[t]
           Idx == f.PSO.ShaderIndices[f.i]
       IN  th' = [th EXCEPT ![t] =
             IF Idx >= Len(m_Shaders) THEN Done(f, "failed", "ShaderIndex")
             ELSE IF CachedShader(Idx) # Null
               THEN NextShader([f EXCEPT !.Shaders[f.i] = CachedShader(Idx)])
             ELSE [f EXCEPT !.pc = "LoadShaders_Create"]]
    /\ m_ShadersGuard' = ReadLockReleased(t)
    /\ UNCHANGED <<archive, cfg, ser, ctor, m_BaseOffsets, maps, m_Shaders, hist>>

\* Lines 442-458: read the shader's bytes and construct it through the
\* device (ReadAndCreateShader, lines 392-401).
LoadShaders_Create(t) ==
    /\ th[t].pc = "LoadShaders_Create"
    /\ \E readOk \in cfg.ReadOutcomes, devOk \in cfg.DeviceOutcomes :
         LET f   == Emit(th[t], "Read")
             Idx == f.PSO.ShaderIndices[f.i]
             pShader == DeviceCreate(devOk, <<"shader", t, f.calls, f.i, Idx>>)
         IN  IF ~readOk THEN
                  /\ th' = [th EXCEPT ![t] = Done(f, "failed", "IoError")]
                  /\ UNCHANGED hist
             ELSE /\ hist' = [hist EXCEPT !.nCreateShader[Idx + 1] = @ + 1]
                  /\ th' = [th EXCEPT ![t] =
                       IF pShader = Null
                       THEN Done(Emit(f, "CreateShader"), "failed", "DeviceConstructionFailed")
                       ELSE [Emit(f, "CreateShader") EXCEPT
                               !.Shaders[f.i] = pShader, !.pShader = pShader,
                               !.pc = "LoadShaders_WriteLock"]]
    /\ UNCHANGED <<archive, cfg, ser, ctor, m_BaseOffsets, maps, m_Shaders, m_ShadersGuard>>

\* Line 462: std::unique_lock WriteLock{m_ShadersGuard}.
LoadShaders_WriteLock(t) ==
    /\ th[t].pc = "LoadShaders_WriteLock"
    /\ m_ShadersGuard = {}
    /\ m_ShadersGuard' = {t}
    /\ th' = [th EXCEPT ![t].pc = "LoadShaders_Install"]
    /\ UNCHANGED <<archive, cfg, ser, ctor, m_BaseOffsets, maps, m_Shaders, hist>>

\* InstallShader, mutated: the constructed shader is not put in the table.
InstallShader_Skipped(Idx, pShader) == m_Shaders

\* InstallShader, mutated: the shader is put in the slot of the next entry.
InstallShader_NextSlot(Idx, pShader) ==
    IF Idx + 2 \in DOMAIN m_Shaders
    THEN [m_Shaders EXCEPT ![Idx + 2].pRes = pShader]
    ELSE m_Shaders

\* InstallShader, mutated: the entry is overwritten as a whole and loses its
\* offset and size.
InstallShader_WholeEntry(Idx, pShader) ==
    [m_Shaders EXCEPT ![Idx + 1] = [Offset |-> 0, Size |-> 0, pRes |-> pShader]]

\* Line 463: the shader table after the constructed shader is installed.
InstallShader(Idx, pShader) == [m_Shaders EXCEPT ![Idx + 1].pRes = pShader]

\* Lines 461-464: install the shader under the lock and release it.
LoadShaders_Install(t) ==
    /\ th[t].pc = "LoadShaders_Install"
    /\ t \in m_ShadersGuard
    /\ m_Shaders' = InstallShader(th[t].PSO.ShaderIndices[th[t].i], th[t].pShader)
    /\ m_ShadersGuard' = m_ShadersGuard \ {t}
    /\ th' = [th EXCEPT ![t] = NextShader(th[t])]
    /\ UNCHANGED <<archive, cfg, ser, ctor, m_BaseOffsets, maps, hist>>


\* Shader->GetDesc().ShaderType: the type serialized with the shader's bytes.
ShaderTypeOf(pShader) == archive.ShaderTypes[pShader[5] + 1]

GraphicsShaderTypes ==
    {"VERTEX", "PIXEL", "GEOMETRY", "HULL", "DOMAIN", "AMPLIFICATION", "MESH"}

\* RemapShader, mutated: every index in range yields the first shader.
RemapShader_First(Loaded, ShaderIndex) ==
    IF ShaderIndex < Len(Loaded) THEN Loaded[1] ELSE Null

\* The RemapShader lambda of UnpackRayTracingPSO (lines 705-715).
RemapShader(Loaded, ShaderIndex) ==
    IF ShaderIndex < Len(Loaded) THEN Loaded[ShaderIndex + 1] ELSE Null

\* Lines 718-732: RemapShader applied to every shader field of the general,
\* triangle-hit and procedural-hit groups.
RemapGroups(Loaded, groups) ==
    [g \in DOMAIN groups |->
        [k \in DOMAIN groups[g] |-> RemapShader(Loaded, groups[g][k])]]

\* Whether the loaded shaders fit the pipeline kind (lines 551-568, 610-611,
\* 655-656; the ray-tracing remap accepts any list).
ShadersFit(type, Loaded) ==
    CASE type = GraphicsPipelineStates ->
           \A k \in DOMAIN Loaded : ShaderTypeOf(Loaded[k]) \in GraphicsShaderTypes
      [] type = ComputePipelineStates ->
           Len(Loaded) = 1 /\ ShaderTypeOf(Loaded[1]) = "COMPUTE"
      [] type = TilePipelineStates ->
           Len(Loaded) = 1 /\ ShaderTypeOf(Loaded[1]) = "TILE"
      [] OTHER -> TRUE

\* Lines 551-568, 610-613, 655-658, 705-732: the loaded shaders are written
\* into the create-info.
SetShaders(t) ==
    /\ th[t].pc = "SetShaders"
    /\ LET f == th[t]
       IN  th' = [th EXCEPT ![t] =
             IF ~ShadersFit(f.Type, f.Shaders) THEN Done(f, "failed", "UnsupportedShaderType")
             ELSE [f EXCEPT
                     !.PSO.CreateInfo.Shaders = f.Shaders,
                     !.PSO.CreateInfo.GeneralShaders =
                         IF f.Type = RayTracingPipelineStates
                         THEN [k \in DOMAIN @ |-> RemapShader(f.Shaders, @[k])]
                         ELSE @,
                     !.PSO.CreateInfo.TriangleHitShaders =
                         IF f.Type = RayTracingPipelineStates
                         THEN RemapGroups(f.Shaders, @) ELSE @,
                     !.PSO.CreateInfo.ProceduralHitShaders =
                         IF f.Type = RayTracingPipelineStates
                         THEN RemapGroups(f.Shaders, @) ELSE @,
                     !.PSO.Saved = [f.PSO.CreateInfo EXCEPT !.Shaders = f.Shaders],
                     !.pc = "ModifyPipelineStateCreateInfo"]]
    /\ UNCHANGED <<archive, cfg, ser, ctor, m_BaseOffsets, maps, m_Shaders, m_ShadersGuard, hist>>

\* What the application's callback may do to the create-info.
Mutations ==
    {"none", "other", "type", "layoutDefault", "varInPlace", "varCount",
     "samInPlace", "samCount", "sigCount", "sigReplace"}

ApplyCallback(ci, m) ==
    CASE m = "other" -> [ci EXCEPT !.SampleMask = 1]
      [] m = "type" -> [ci EXCEPT !.PipelineType = (@ + 1) % 5]
      [] m = "layoutDefault" -> [ci EXCEPT !.ResourceLayout.DefaultVariableType = 1]
      [] m = "varInPlace" -> [ci EXCEPT !.ResourceLayout.Variables[1] = 9]
      [] m = "varCount" -> [ci EXCEPT !.ResourceLayout.Variables = Tail(@)]
      [] m = "samInPlace" -> [ci EXCEPT !.ResourceLayout.ImmutableSamplers[1] = 9]
      [] m = "samCount" -> [ci EXCEPT !.ResourceLayout.ImmutableSamplers = Tail(@)]
      [] m = "sigCount" -> [ci EXCEPT !.ResourceSignaturesCount = @ - 1,
                                      !.ppResourceSignatures = SubSeq(@, 1, Len(@) - 1)]
      [] m = "sigReplace" -> [ci EXCEPT !.ppResourceSignatures[1] = <<"prs", "foreign">>]
      [] OTHER -> ci

\* ModifyPipelineStateCreateInfo, mutated: the signature list is not compared.
ModifyPipelineStateCreateInfo_NoSignatures(CreateInfo, cb) ==
    IF cb = "absent" THEN [ok |-> TRUE, CreateInfo |-> CreateInfo, err |-> ""]
    ELSE LET PipelineType   == CreateInfo.PipelineType
             ResourceLayout == CreateInfo.ResourceLayout
             Modified       == ApplyCallback(CreateInfo, cb)
         IN  IF PipelineType # Modified.PipelineType
               THEN [ok |-> FALSE, CreateInfo |-> Modified, err |-> "IllegalModification"]
             ELSE IF ~(ResourceLayout = Modified.ResourceLayout)
               THEN [ok |-> FALSE, CreateInfo |-> Modified, err |-> "IllegalModification"]
             ELSE [ok |-> TRUE, CreateInfo |-> Modified, err |-> ""]

\* ModifyPipelineStateCreateInfo (lines 469-516): the copies taken before the
\* callback (the layout with its variables and samplers copied by value, the
\* signature pointers), the callback, the three comparisons.
ModifyPipelineStateCreateInfo(CreateInfo, cb) ==
    IF cb = "absent" THEN [ok |-> TRUE, CreateInfo |-> CreateInfo, err |-> ""]
    ELSE LET PipelineType   == CreateInfo.PipelineType
             ResourceLayout == CreateInfo.ResourceLayout
             pSignatures    == SubSeq(CreateInfo.ppResourceSignatures, 1,
                                      CreateInfo.ResourceSignaturesCount)
             Modified       == ApplyCallback(CreateInfo, cb)
         IN  IF PipelineType # Modified.PipelineType
               THEN [ok |-> FALSE, CreateInfo |-> Modified, err |-> "IllegalModification"]
             ELSE IF ~(ResourceLayout = Modified.ResourceLayout)
               THEN [ok |-> FALSE, CreateInfo |-> Modified, err |-> "IllegalModification"]
             ELSE IF pSignatures # SubSeq(Modified.ppResourceSignatures, 1,
                                          Modified.ResourceSignaturesCount)
               THEN [ok |-> FALSE, CreateInfo |-> Modified, err |-> "IllegalModification"]
             ELSE [ok |-> TRUE, CreateInfo |-> Modified, err |-> ""]

\* Lines 572-573: the callback and the check of what it changed.
ModifyCreateInfo(t) ==
    /\ th[t].pc = "ModifyPipelineStateCreateInfo"
    /\ LET f == th[t]
           r == ModifyPipelineStateCreateInfo(f.PSO.CreateInfo, f.cb)
           g == [(IF f.cb = "absent" THEN f ELSE Emit(f, "Callback"))
                   EXCEPT !.PSO.CreateInfo = r.CreateInfo]
       IN  th' = [th EXCEPT ![t] =
             IF ~r.ok THEN Done(g, "failed", r.err)
             ELSE [g EXCEPT !.pc = "CreatePipelineState"]]
    /\ UNCHANGED <<archive, cfg, ser, ctor, m_BaseOffsets, maps, m_Shaders, m_ShadersGuard, hist>>

\* InstallPipeline, mutated: the result is installed whether or not the
\* call has a callback.
InstallPipeline_Always(dir, f, pPSO) == SetResource(dir, f.Name, pPSO)

\* InstallPipeline, mutated: the constructed pipeline is never installed.
InstallPipeline_Never(dir, f, pPSO) == dir

\* Lines 577-578: the directory after the unpack; only a call without a
\* callback installs what the device returned.
InstallPipeline(dir, f, pPSO) ==
    IF f.cb = "absent" THEN SetResource(dir, f.Name, pPSO) ELSE dir

\* Lines 575-578: the device constructs the pipeline; without a callback the
\* result is installed in the directory.
CreatePipelineState(t) ==
    /\ th[t].pc = "CreatePipelineState"
    /\ \E devOk \in cfg.DeviceOutcomes :
         LET f    == Emit(th[t], "CreatePipelineState")
             pPSO == DeviceCreate(devOk, <<"pso", t, f.calls>>)
         IN  /\ maps' = [maps EXCEPT ![f.Type] = InstallPipeline(@, f, pPSO)]
             /\ th' = [th EXCEPT ![t] =
                  Done([f EXCEPT !.out = pPSO],
                       IF pPSO = Null THEN "failed" ELSE "ok",
                       IF pPSO = Null THEN "DeviceConstructionFailed" ELSE "")]
             /\ hist' = NoteUnpacked(f.cb, f.Type, f.Name, pPSO)
    /\ UNCHANGED <<archive, cfg, ser, ctor, m_BaseOffsets, m_Shaders, m_ShadersGuard>>

\* The Unpack* call returns to the application.
Return(t) ==
    /\ th[t].pc = "done"
    /\ th' = [th EXCEPT ![t] = [IdleFrame EXCEPT !.calls = th[t].calls]]
    /\ UNCHANGED <<archive, cfg, ser, ctor, m_BaseOffsets, maps, m_Shaders, m_ShadersGuard, hist>>

\* ClearResourceCache line 767: take the shader mutex.
ClearResourceCache_Lock(t) ==
    /\ Ready(t)
    /\ th[t].pc = "idle"
    /\ cfg.Clear
    /\ m_ShadersGuard = {}
    /\ m_ShadersGuard' = {t}
    /\ th' = [th EXCEPT ![t].pc = "ClearResourceCache"]
    /\ UNCHANGED <<archive, cfg, ser, ctor, m_BaseOffsets, maps, m_Shaders, hist>>

\* Lines 769-772: what ClearResourceCache leaves of the caches.
\* ClearedShaders, mutated: the first entry is skipped.
ClearedShaders_KeepFirst ==
    [k \in DOMAIN m_Shaders |-> IF k = 1 THEN m_Shaders[k] ELSE [m_Shaders[k] EXCEPT !.pRes = Null]]

ClearedShaders == [k \in DOMAIN m_Shaders |-> [m_Shaders[k] EXCEPT !.pRes = Null]]

\* The snapshots that LoadShaders took of an entry (line 439) and has not
\* yet installed a shader for (observation only): thread, call and position
\* in the list of shader indices.
Snapshots ==
    {<<t, th[t].calls, th[t].i>> :
        t \in {u \in 1..NumThreads : th[u].pc \in {"LoadShaders_Create", "LoadShaders_WriteLock"}}}

\* Lines 769-773: release every cached shader, then the lock.
ClearResourceCache(t) ==
    /\ th[t].pc = "ClearResourceCache"
    /\ t \in m_ShadersGuard
    /\ m_Shaders' = ClearedShaders
    /\ m_ShadersGuard' = m_ShadersGuard \ {t}
    /\ th' = [th EXCEPT ![t].pc = "idle"]
    /\ hist' = [hist EXCEPT !.cleared = TRUE, !.stale = @ \cup Snapshots]
    /\ UNCHANGED <<archive, cfg, ser, ctor, m_BaseOffsets, maps>>

ThreadNext(t) ==
    \/ UnpackPSO(t) \/ ReadPSOData(t)
    \/ UnpackRenderPass(t) \/ CreateRenderPass(t) \/ ReadRPData(t) \/ DeviceCreateRenderPass(t)
    \/ CreateResourceSignatures(t) \/ UnpackDeviceData(t)
    \/ LoadShaders(t) \/ LoadShaders_Lock(t) \/ LoadShaders_Lookup(t)
    \/ LoadShaders_Create(t) \/ LoadShaders_WriteLock(t) \/ LoadShaders_Install(t)
    \/ SetShaders(t) \/ ModifyCreateInfo(t) \/ CreatePipelineState(t) \/ Return(t)
    \/ ClearResourceCache_Lock(t) \/ ClearResourceCache(t)

Next == CtorNext \/ \E t \in 1..NumThreads : ThreadNext(t)

(***************************************************************************)
(* SerializationDeviceImpl::GetPipelineResourceBindings: the register and  *)
(* space of every resource of a set of resource signatures, per backend.   *)
(***************************************************************************)
\* The shader stages of the model in the order of their bits: ExtractLSB
\* takes the lowest bit first.
StageOrder == <<"VERTEX", "PIXEL", "COMPUTE", "RAY_GEN">>

AllStages == {StageOrder[k] : k \in DOMAIN StageOrder}

\* SHADER_TYPE_ALL_GRAPHICS | SHADER_TYPE_COMPUTE (lines 218, 335).
SupportedStagesMask == {"VERTEX", "PIXEL", "COMPUTE"}

\* The stages of a mask, lowest bit first.
StagesOf(mask) == SelectSeq(StageOrder, LAMBDA s : s \in mask)

\* D3D11_RESOURCE_RANGE.
Ranges == {"CBV", "SRV", "SAMPLER", "UAV"}

\* PipelineResourceSignatureD3D11Impl::ShaderResourceTypeToRange.
ShaderResourceTypeToRange(type) ==
    CASE type = "CONSTANT_BUFFER" -> "CBV"
      [] type \in {"TEXTURE_SRV", "BUFFER_SRV"} -> "SRV"
      [] type = "SAMPLER" -> "SAMPLER"
      [] OTHER -> "UAV"

\* D3D11ResourceBindPoints of a resource: the bind point of a stage the
\* resource is not active in.
InvalidBindPoint == WordMod - 1

\* The descriptor-set size a Vulkan signature reports for a set it does not
\* have (~0u).
NoDescriptorSet == WordMod - 1

\* One resource of a signature with the attributes each backend keeps for
\* it: bind points per stage (D3D11), register and space (D3D12), binding
\* index and descriptor set (Vulkan), cache offset (GL).
Resource(name, type, stages, size, runtime, bindPoint, register, space, binding, set, cache) ==
    [Name |-> name, ResourceType |-> type, ShaderStages |-> stages,
     ArraySize |-> size, RuntimeArray |-> runtime,
     BindPoints |-> [s \in AllStages |-> IF s \in stages THEN bindPoint ELSE InvalidBindPoint],
     Register |-> register, Space |-> space,
     BindingIndex |-> binding, DescrSet |-> set, CacheOffset |-> cache]

\* One immutable sampler of a signature (D3D11 attributes).
ImmutableSampler(name, stages, arraySize, bindPoint) ==
    [SamplerOrTextureName |-> name, ShaderStages |-> stages, ArraySize |-> arraySize,
     BindPoints |-> [s \in AllStages |-> IF s \in stages THEN bindPoint ELSE InvalidBindPoint]]

RECURSIVE SumOver(_, _)
\* The sum of f[k] over the indices k of a set.
SumOver(f, S) ==
    IF S = {} THEN 0
    ELSE LET k == CHOOSE j \in S : TRUE IN f[k] + SumOver(f, S \ {k})

\* The number of bind points a signature takes in a range and a stage: the
\* array sizes of its resources and immutable samplers that are active there.
ResourceCounters(resources, samplers) ==
    [range \in Ranges |-> [s \in AllStages |->
        SumOver([k \in DOMAIN resources |-> resources[k].ArraySize],
                {k \in DOMAIN resources :
                    /\ ShaderResourceTypeToRange(resources[k].ResourceType) = range
                    /\ s \in resources[k].ShaderStages})
        + (IF range = "SAMPLER"
           THEN SumOver([k \in DOMAIN samplers |-> samplers[k].ArraySize],
                        {k \in DOMAIN samplers : s \in samplers[k].ShaderStages})
           ELSE 0)]]

\* BINDING_RANGE of the GL backend.
BindingRanges == {"UNIFORM_BUFFER", "TEXTURE", "IMAGE", "STORAGE_BUFFER"}

\* PipelineResourceToBindingRange of the GL backend.
PipelineResourceToBindingRange(ResDesc) ==
    CASE ResDesc.ResourceType = "CONSTANT_BUFFER" -> "UNIFORM_BUFFER"
      [] ResDesc.ResourceType = "TEXTURE_SRV" -> "TEXTURE"
      [] ResDesc.ResourceType = "TEXTURE_UAV" -> "IMAGE"
      [] OTHER -> "STORAGE_BUFFER"

\* The number of bindings a GL signature takes in a range: the array sizes
\* of its resources of that range, whatever their stages.
BindingCounts(resources) ==
    [range \in BindingRanges |->
        SumOver([k \in DOMAIN resources |-> resources[k].ArraySize],
                {k \in DOMAIN resources :
                    PipelineResourceToBindingRange(resources[k]) = range})]

\* A serializable resource signature: its binding index, its resources and
\* what its per-backend signatures report (the D3D11 counters, the number of
\* D3D12 register spaces, the sizes of the two Vulkan descriptor sets, the
\* GL binding counts).
Signature(index, resources, samplers, numSpaces, setSizes) ==
    [BindingIndex |-> index, Resources |-> resources, ImmutableSamplers |-> samplers,
     Counters |-> ResourceCounters(resources, samplers),
     BindingCount |-> BindingCounts(resources),
     NumSpaces |-> numSpaces, DescriptorSetSize |-> setSizes]

\* Signature A: binding index 0, a constant buffer and a pixel-stage UAV in
\* one static/mutable descriptor set.
SigA ==
    Signature(0,
        <<Resource("A.cb",  "CONSTANT_BUFFER", {"VERTEX", "PIXEL"}, 1, FALSE, 0, 0, 0, 0, 0, 0),
          Resource("A.uav", "BUFFER_UAV",      {"PIXEL"},           1, FALSE, 0, 0, 0, 1, 0, 0)>>,
        <<>>, 1, <<2, NoDescriptorSet>>)

\* Signature B: binding index 1, a UAV of the pixel and compute stages in a
\* dynamic descriptor set, and an immutable sampler.
SigB ==
    Signature(1,
        <<Resource("B.uav", "TEXTURE_UAV", {"PIXEL", "COMPUTE"}, 2, FALSE, 0, 0, 0, 0, 0, 0)>>,
        <<ImmutableSampler("B.sam", {"PIXEL"}, 1, 0)>>, 1, <<NoDescriptorSet, 2>>)

\* Signature C: binding index 2, both descriptor sets, a runtime array in a
\* register space of its own, and a ray-generation resource.
SigC ==
    Signature(2,
        <<Resource("C.srv", "TEXTURE_SRV", {"VERTEX", "PIXEL"},  1, FALSE, 0, 0, 0, 0, 0, 0),
          Resource("C.arr", "BUFFER_SRV",  {"PIXEL"},            3, TRUE,  1, 0, 1, 0, 1, 0),
          Resource("C.uav", "BUFFER_UAV",  {"PIXEL", "COMPUTE"}, 1, FALSE, 0, 1, 0, 1, 1, 3),
          Resource("C.rt",  "BUFFER_UAV",  {"RAY_GEN"},          1, FALSE, 0, 2, 0, 1, 0, 4)>>,
        <<>>, 2, <<2, 2>>)

\* Signature D: binding index 0, UAVs of the vertex, pixel and compute
\* stages, both descriptor sets.
SigD ==
    Signature(0,
        <<Resource("D.uavV", "BUFFER_UAV", {"VERTEX"},           1, FALSE, 0, 0, 0, 0, 0, 0),
          Resource("D.uavP", "BUFFER_UAV", {"PIXEL", "COMPUTE"}, 1, FALSE, 0, 1, 0, 0, 1, 1),
          Resource("D.uavQ", "BUFFER_UAV", {"PIXEL"},            1, FALSE, 1, 2, 0, 1, 1, 2)>>,
        <<>>, 1, <<1, 2>>)

\* An empty slot of the signature array.
NoSignature == Null

\* MAX_RESOURCE_SIGNATURES of the model: the slots of the signature array.
MaxSignatures == 3

\* Signature N: binding index 1, no resources, so neither descriptor set.
SigN == Signature(1, <<>>, <<>>, 0, <<NoDescriptorSet, NoDescriptorSet>>)

\* Signature S: binding index 2, a texture and two immutable samplers, the
\* first one of two stages.
SigS ==
    Signature(2,
        <<Resource("S.tex", "TEXTURE_SRV", {"VERTEX", "PIXEL"}, 1, FALSE, 0, 0, 0, 0, 0, 0)>>,
        <<ImmutableSampler("S.samA", {"VERTEX", "PIXEL"}, 1, 0),
          ImmutableSampler("S.samB", {"PIXEL"}, 2, 1)>>, 1, <<1, NoDescriptorSet>>)

\* Signature E: a binding index one past the last slot of the array.
SigE ==
    Signature(MaxSignatures,
        <<Resource("E.cb", "CONSTANT_BUFFER", {"PIXEL"}, 1, FALSE, 0, 0, 0, 0, 0, 0)>>,
        <<>>, 1, <<1, NoDescriptorSet>>)

\* The largest Info.NumRenderTargets of the model.
MaxRenderTargets == 3

RENDER_DEVICE_TYPE_UNDEFINED == "UNDEFINED"
RENDER_DEVICE_TYPE_D3D11 == "D3D11"
RENDER_DEVICE_TYPE_D3D12 == "D3D12"
RENDER_DEVICE_TYPE_VULKAN == "VULKAN"
RENDER_DEVICE_TYPE_GL == "GL"
RENDER_DEVICE_TYPE_GLES == "GLES"
RENDER_DEVICE_TYPE_METAL == "METAL"
RENDER_DEVICE_TYPE_COUNT == "COUNT"

\* The backends whose case is compiled in (lines 215, 295, 333, 378, 422):
\* all but Metal.
SupportedDevices ==
    {RENDER_DEVICE_TYPE_D3D11, RENDER_DEVICE_TYPE_D3D12, RENDER_DEVICE_TYPE_VULKAN,
     RENDER_DEVICE_TYPE_GL, RENDER_DEVICE_TYPE_GLES}

\* SHADER_TYPE_UNKNOWN: the empty stage mask.
SHADER_TYPE_UNKNOWN == {}

\* Info.ppResourceSignatures of the calls of the model: signatures in any
\* order, with and without gaps, one list with a signature without
\* resources, one with two signatures of the same binding index, one with a
\* binding index past the array.
SignatureLists ==
    {<<>>, <<SigA>>, <<SigB>>, <<SigD>>, <<SigA, SigB>>, <<SigB, SigA>>, <<SigA, SigC>>,
     <<SigD, SigB>>, <<SigC, SigB, SigA>>, <<SigD, SigB, SigC>>, <<SigC, SigD>>,
     <<SigA, SigN>>, <<SigD, SigA>>, <<SigA, SigE>>, <<SigS, SigA, SigB>>}

\* PipelineResourceBindingAttribs of the calls of the model.
BindingAttribs ==
    [DeviceType : {RENDER_DEVICE_TYPE_UNDEFINED, RENDER_DEVICE_TYPE_D3D11,
                   RENDER_DEVICE_TYPE_D3D12, RENDER_DEVICE_TYPE_VULKAN,
                   RENDER_DEVICE_TYPE_GL, RENDER_DEVICE_TYPE_GLES,
                   RENDER_DEVICE_TYPE_METAL, RENDER_DEVICE_TYPE_COUNT},
     ppResourceSignatures : SignatureLists,
     ShaderStages : {SHADER_TYPE_UNKNOWN, {"PIXEL"}, {"VERTEX", "COMPUTE"}, {"RAY_GEN"}},
     NumRenderTargets : 0..MaxRenderTargets]

\* The serialization device when GetPipelineResourceBindings is not called.
\* The arguments of the later calls on the same device.
LaterAttribs ==
    {[DeviceType |-> RENDER_DEVICE_TYPE_VULKAN, ppResourceSignatures |-> <<SigA, SigB>>,
      ShaderStages |-> SHADER_TYPE_UNKNOWN, NumRenderTargets |-> 0],
     [DeviceType |-> RENDER_DEVICE_TYPE_D3D11, ppResourceSignatures |-> <<SigB>>,
      ShaderStages |-> {"PIXEL"}, NumRenderTargets |-> 1],
     [DeviceType |-> RENDER_DEVICE_TYPE_UNDEFINED, ppResourceSignatures |-> <<SigA>>,
      ShaderStages |-> SHADER_TYPE_UNKNOWN, NumRenderTargets |-> 0],
     [DeviceType |-> RENDER_DEVICE_TYPE_METAL, ppResourceSignatures |-> <<SigD>>,
      ShaderStages |-> SHADER_TYPE_UNKNOWN, NumRenderTargets |-> 0]}

\* The calls of GetPipelineResourceBindings on one device.
BindCalls == 3

\* The serialization device when GetPipelineResourceBindings is not called:
\* the locals of the call, the list m_ResourceBindings of the device, the
\* caller's NumBindings and pBindings, the errors reported, the assertions
\* that failed, whether the behaviour is undefined, and the calls that
\* returned so far with what they returned.
NoBindingCall ==
    [pc |-> "none", Info |-> Null, ShaderStages |-> {}, Signatures |-> <<>>,
     SignaturesCount |-> 0, sign |-> 0, BaseBindings |-> Null, DescSetLayoutCount |-> 0,
     m_ResourceBindings |-> <<>>, NumBindings |-> 0, pBindings |-> "null",
     err |-> "", failed |-> {}, ub |-> FALSE, calls |-> 0, returned |-> <<>>]

Max(a, b) == IF a >= b THEN a ELSE b

RECURSIVE SortInto(_, _, _)
\* The loop of SortResourceSignatures (lines 71-78) from position i on: each
\* signature goes into the slot of its binding index.
SortInto(list, i, acc) ==
    IF i > Len(list) THEN acc
    ELSE SortInto(list, i + 1,
                  [Signatures |-> [acc.Signatures EXCEPT ![list[i].BindingIndex + 1] = list[i]],
                   SignaturesCount |-> Max(acc.SignaturesCount, list[i].BindingIndex + 1),
                   ub |-> acc.ub \/ list[i].BindingIndex >= MaxSignatures])

\* SortResourceSignatures, mutated: the signatures fill the slots in the
\* order of the list, whatever their binding indices.
SortResourceSignatures_InOrder(Info) ==
    [Signatures |-> [k \in 1..(MaxSignatures + 1) |->
                        IF k <= Len(Info.ppResourceSignatures)
                        THEN Info.ppResourceSignatures[k] ELSE NoSignature],
     SignaturesCount |-> Len(Info.ppResourceSignatures), ub |-> FALSE]

\* SortResourceSignatures (lines 68-79).  The array has MaxSignatures slots;
\* the slot behind them stands for the memory that a write at a binding
\* index past the array lands in, and ub tells that such a write was made.
SortResourceSignatures(Info) ==
    SortInto(Info.ppResourceSignatures, 1,
             [Signatures |-> [k \in 1..(MaxSignatures + 1) |-> NoSignature],
              SignaturesCount |-> 0, ub |-> FALSE])

\* What a build can make of a write past the array: the pointer is read
\* back by the loop, or the memory is overwritten before the loop reads it
\* and holds null, or the call crashes.
UndefinedOutcomes == {"kept", "lost", "crash"}

\* The signature array as the loop finds it.
ArrayAfter(sorted, outcome) ==
    IF sorted.ub /\ outcome = "lost"
    THEN [k \in DOMAIN sorted.Signatures |->
            IF k <= MaxSignatures THEN sorted.Signatures[k] ELSE NoSignature]
    ELSE sorted.Signatures

\* Line 207, mutated: SHADER_TYPE_UNKNOWN stays the empty mask.
RequestedStages_NotWidened(Info) == Info.ShaderStages

\* Line 207: SHADER_TYPE_UNKNOWN stands for every stage.
RequestedStages(Info) ==
    IF Info.ShaderStages = SHADER_TYPE_UNKNOWN THEN AllStages ELSE Info.ShaderStages

\* Lines 203-204, mutated: the caller's variables keep what they hold.
ResetOutputs_Kept(s) == s

\* Lines 203-204: NumBindings = 0, pBindings = nullptr.
ResetOutputs(s) == [s EXCEPT !.NumBindings = 0, !.pBindings = "null"]

\* Line 205, mutated: the list keeps the bindings of the call before.
ClearBindings_Kept(list) == list

\* Line 205: m_ResourceBindings.clear().
ClearBindings(list) == <<>>

\* D3D11ShaderResourceCounters BaseBindings = {} and line 226.
InitialBaseBindings(Info) ==
    [range \in Ranges |-> [s \in AllStages |->
        IF range = "UAV" /\ s = "PIXEL" THEN Info.NumRenderTargets ELSE 0]]

\* PipelineResourceSignatureGLImpl::TBindings BaseBindings = {} (line 343).
InitialGLBindings == [range \in BindingRanges |-> 0]

\* PipelineResourceSignatureGLImpl::ShiftBindings: the base of every range
\* moves on by the signature's binding count.
ShiftGLBindings(pSignature, Bindings) ==
    [range \in BindingRanges |-> AddU32(Bindings[range], pSignature.BindingCount[range])]

\* PipelineResourceSignatureD3D11Impl::ShiftBindings: the base of every
\* range and stage moves on by the signature's counter.
ShiftBindings(pSignature, Bindings) ==
    [range \in Ranges |-> [s \in AllStages |->
        AddU32(Bindings[range][s], pSignature.Counters[range][s])]]

\* RootSignatureD3D12::GetBaseRegisterSpace: the register spaces taken by
\* the signatures in the slots before slot sign.
GetBaseRegisterSpace(Signatures, sign) ==
    SumOver([k \in DOMAIN Signatures |-> Signatures[k].NumSpaces],
            {k \in 1..sign : Signatures[k] # NoSignature})

\* Lines 203-214 and the head of the case of the device type: the list is
\* cleared, the stage mask is widened, the signatures are sorted.
GetPipelineResourceBindings ==
    /\ ser.pc = "call"
    /\ LET Info   == ser.Info
           sorted == SortResourceSignatures(Info)
           known  == Info.DeviceType \in SupportedDevices
           reset  == [ResetOutputs(ser) EXCEPT
                          !.m_ResourceBindings = ClearBindings(@), !.calls = @ + 1,
                          !.failed = {}]
       IN  \E outcome \in UndefinedOutcomes :
           ser' = IF ~known
                  THEN [reset EXCEPT !.pc = "done"]
                  ELSE IF sorted.ub /\ outcome = "crash"
                  THEN [reset EXCEPT !.pc = "crashed", !.ub = TRUE]
                  ELSE [reset EXCEPT
                          !.pc = Info.DeviceType,
                          !.ub = @ \/ sorted.ub,
                          !.ShaderStages = RequestedStages(Info),
                          !.Signatures = ArrayAfter(sorted, outcome),
                          !.SignaturesCount = sorted.SignaturesCount,
                          !.sign = 0,
                          !.BaseBindings =
                              IF Info.DeviceType \in {RENDER_DEVICE_TYPE_GL, RENDER_DEVICE_TYPE_GLES}
                              THEN InitialGLBindings ELSE InitialBaseBindings(Info),
                          !.DescSetLayoutCount = 0]
    /\ UNCHANGED <<archive, cfg, ctor, m_BaseOffsets, maps, m_Shaders, m_ShadersGuard, th, hist>>

RECURSIVE Flatten(_)
\* The concatenation of a sequence of sequences.
Flatten(ss) == IF ss = <<>> THEN <<>> ELSE Head(ss) \o Flatten(Tail(ss))

\* Dst.ArraySize (lines 256, 323, 406).
DstArraySize(ResDesc) == IF ~ResDesc.RuntimeArray THEN ResDesc.ArraySize ELSE 0

\* The register of a D3D11 binding, mutated: the base is left out.
D3D11Register_NoBase(BaseBindings, Range, BindPoints, ShaderInd) == BindPoints[ShaderInd]

\* Lines 250 and 275: the register of a D3D11 binding.
D3D11Register(BaseBindings, Range, BindPoints, ShaderInd) ==
    AddU32(BaseBindings[Range][ShaderInd], BindPoints[ShaderInd])

\* Lines 234-260: the bindings of the resources of a D3D11 signature, one
\* per supported stage that is requested and that the resource is in.
D3D11ResourceBindings(pSignature, BaseBindings, ShaderStages) ==
    Flatten([r \in DOMAIN pSignature.Resources |->
        LET ResDesc == pSignature.Resources[r]
            Range   == ShaderResourceTypeToRange(ResDesc.ResourceType)
            Stages  == StagesOf((ShaderStages \cap SupportedStagesMask) \cap ResDesc.ShaderStages)
        IN  [k \in DOMAIN Stages |->
                [Name |-> ResDesc.Name, ResourceType |-> ResDesc.ResourceType,
                 Register |-> D3D11Register(BaseBindings, Range, ResDesc.BindPoints, Stages[k]),
                 Space |-> 0, ArraySize |-> DstArraySize(ResDesc),
                 ShaderStages |-> {Stages[k]}]]])

\* Lines 262-285: the bindings of the immutable samplers of a D3D11 signature.
\* The bindings of the immutable samplers, mutated: none is emitted.
D3D11SamplerBindings_None(pSignature, BaseBindings, ShaderStages) == <<>>

D3D11SamplerBindings(pSignature, BaseBindings, ShaderStages) ==
    Flatten([samp \in DOMAIN pSignature.ImmutableSamplers |->
        LET ImtblSam == pSignature.ImmutableSamplers[samp]
            Stages   == StagesOf((ShaderStages \cap SupportedStagesMask) \cap ImtblSam.ShaderStages)
        IN  [k \in DOMAIN Stages |->
                [Name |-> ImtblSam.SamplerOrTextureName, ResourceType |-> "SAMPLER",
                 Register |-> D3D11Register(BaseBindings, "SAMPLER", ImtblSam.BindPoints, Stages[k]),
                 Space |-> 0, ArraySize |-> ImtblSam.ArraySize,
                 ShaderStages |-> {Stages[k]}]]])

\* Where the loop over the signatures goes after the signature in slot sign.
BindingLoopEnd(s) == [s EXCEPT !.pc = "return"]

\* Lines 228-287: one iteration of the D3D11 loop over the signatures.
BindD3D11 ==
    /\ ser.pc = RENDER_DEVICE_TYPE_D3D11
    /\ LET pSignature == ser.Signatures[ser.sign + 1]
       IN  ser' = IF ser.sign >= ser.SignaturesCount THEN BindingLoopEnd(ser)
                  ELSE IF pSignature = NoSignature THEN [ser EXCEPT !.sign = @ + 1]
                  ELSE [ser EXCEPT
                          !.m_ResourceBindings =
                              @ \o D3D11ResourceBindings(pSignature, ser.BaseBindings, ser.ShaderStages)
                                \o D3D11SamplerBindings(pSignature, ser.BaseBindings, ser.ShaderStages),
                          !.BaseBindings = ShiftBindings(pSignature, @),
                          !.sign = @ + 1]
    /\ UNCHANGED <<archive, cfg, ctor, m_BaseOffsets, maps, m_Shaders, m_ShadersGuard, th, hist>>

\* The space of a D3D12 binding, mutated: the resource's space is left out.
D3D12Space_BaseOnly(BaseRegisterSpace, ResAttr) == BaseRegisterSpace

\* Line 322: the space of a D3D12 binding (StaticCast<Uint16>: the sum fits).
D3D12Space(BaseRegisterSpace, ResAttr) == AddU32(BaseRegisterSpace, ResAttr.Space)

\* Lines 309-327: the bindings of a D3D12 signature, one per resource whose
\* stages meet the requested ones.
D3D12ResourceBindings(pSignature, BaseRegisterSpace, ShaderStages) ==
    LET Emitted == SelectSeq(pSignature.Resources,
                             LAMBDA ResDesc : ResDesc.ShaderStages \cap ShaderStages # {})
    IN  [k \in DOMAIN Emitted |->
            [Name |-> Emitted[k].Name, ResourceType |-> Emitted[k].ResourceType,
             Register |-> Emitted[k].Register,
             Space |-> D3D12Space(BaseRegisterSpace, Emitted[k]),
             ArraySize |-> DstArraySize(Emitted[k]),
             ShaderStages |-> Emitted[k].ShaderStages]]

\* Lines 303-328: one iteration of the D3D12 loop over the signatures.
BindD3D12 ==
    /\ ser.pc = RENDER_DEVICE_TYPE_D3D12
    /\ LET pSignature == ser.Signatures[ser.sign + 1]
           BaseRegisterSpace == GetBaseRegisterSpace(ser.Signatures, ser.sign)
       IN  ser' = IF ser.sign >= ser.SignaturesCount THEN BindingLoopEnd(ser)
                  ELSE IF pSignature = NoSignature THEN [ser EXCEPT !.sign = @ + 1]
                  ELSE [ser EXCEPT
                          !.m_ResourceBindings =
                              @ \o D3D12ResourceBindings(pSignature, BaseRegisterSpace, ser.ShaderStages),
                          !.sign = @ + 1]
    /\ UNCHANGED <<archive, cfg, ctor, m_BaseOffsets, maps, m_Shaders, m_ShadersGuard, th, hist>>

\* The space of a Vulkan binding, mutated: the layouts of the earlier
\* signatures are not counted.
VulkanSpace_OwnSetOnly(DescSetLayoutCount, ResAttr) == ResAttr.DescrSet

\* Line 405: the space of a Vulkan binding (StaticCast<Uint16>: the sum fits).
VulkanSpace(DescSetLayoutCount, ResAttr) == AddU32(DescSetLayoutCount, ResAttr.DescrSet)

\* Lines 392-409: the bindings of a Vulkan signature, one per resource whose
\* stages meet the requested ones.
VulkanResourceBindings(pSignature, DescSetLayoutCount, ShaderStages) ==
    LET Emitted == SelectSeq(pSignature.Resources,
                             LAMBDA ResDesc : ResDesc.ShaderStages \cap ShaderStages # {})
    IN  [k \in DOMAIN Emitted |->
            [Name |-> Emitted[k].Name, ResourceType |-> Emitted[k].ResourceType,
             Register |-> Emitted[k].BindingIndex,
             Space |-> VulkanSpace(DescSetLayoutCount, Emitted[k]),
             ArraySize |-> DstArraySize(Emitted[k]),
             ShaderStages |-> Emitted[k].ShaderStages]]

\* Lines 412-416: the descriptor-set layouts a signature contributes, one
\* for each of its two sets whose size is not ~0u.
DescriptorSetLayouts(pSignature) ==
    Cardinality({SetId \in DOMAIN pSignature.DescriptorSetSize :
                    pSignature.DescriptorSetSize[SetId] # NoDescriptorSet})

\* Lines 386-417: one iteration of the Vulkan loop over the signatures.
\* Lines 417-418: the VERIFY_EXPRs behind the Vulkan loop that do not hold.
FailedAssertions(DescSetLayoutCount, Info) ==
    (IF DescSetLayoutCount <= MaxSignatures * 2 THEN {} ELSE {"DescSetLayoutCount <= MAX_RESOURCE_SIGNATURES * 2"})
    \cup (IF DescSetLayoutCount >= Len(Info.ppResourceSignatures) THEN {}
          ELSE {"DescSetLayoutCount >= Info.ResourceSignaturesCount"})

BindVulkan ==
    /\ ser.pc = RENDER_DEVICE_TYPE_VULKAN
    /\ LET pSignature == ser.Signatures[ser.sign + 1]
       IN  ser' = IF ser.sign >= ser.SignaturesCount
                  THEN [BindingLoopEnd(ser) EXCEPT
                          !.failed = FailedAssertions(ser.DescSetLayoutCount, ser.Info)]
                  ELSE IF pSignature = NoSignature THEN [ser EXCEPT !.sign = @ + 1]
                  ELSE [ser EXCEPT
                          !.m_ResourceBindings =
                              @ \o VulkanResourceBindings(pSignature, ser.DescSetLayoutCount,
                                                          ser.ShaderStages),
                          !.DescSetLayoutCount = AddU32(@, DescriptorSetLayouts(pSignature)),
                          !.sign = @ + 1]
    /\ UNCHANGED <<archive, cfg, ctor, m_BaseOffsets, maps, m_Shaders, m_ShadersGuard, th, hist>>

\* The register of a GL binding, mutated: the base of the pixel stage is
\* one further on.
GLRegister_PerStage(BaseBindings, Range, ResAttr, ShaderStage) ==
    AddU32(AddU32(BaseBindings[Range], ResAttr.CacheOffset),
           IF ShaderStage = "PIXEL" THEN 1 ELSE 0)

\* Line 364: the register of a GL binding; the stage plays no part.
GLRegister(BaseBindings, Range, ResAttr, ShaderStage) ==
    AddU32(BaseBindings[Range], ResAttr.CacheOffset)

\* Lines 350-371: the bindings of the resources of a GL signature, one per
\* supported stage that is requested and that the resource is in.
GLResourceBindings(pSignature, BaseBindings, ShaderStages) ==
    Flatten([r \in DOMAIN pSignature.Resources |->
        LET ResDesc == pSignature.Resources[r]
            Range   == PipelineResourceToBindingRange(ResDesc)
            Stages  == StagesOf((ShaderStages \cap SupportedStagesMask) \cap ResDesc.ShaderStages)
        IN  [k \in DOMAIN Stages |->
                [Name |-> ResDesc.Name, ResourceType |-> ResDesc.ResourceType,
                 Register |-> GLRegister(BaseBindings, Range, ResDesc, Stages[k]),
                 Space |-> 0, ArraySize |-> DstArraySize(ResDesc),
                 ShaderStages |-> {Stages[k]}]]])

\* Lines 344-373: one iteration of the GL loop over the signatures.
BindGL ==
    /\ ser.pc \in {RENDER_DEVICE_TYPE_GL, RENDER_DEVICE_TYPE_GLES}
    /\ LET pSignature == ser.Signatures[ser.sign + 1]
       IN  ser' = IF ser.sign >= ser.SignaturesCount THEN BindingLoopEnd(ser)
                  ELSE IF pSignature = NoSignature THEN [ser EXCEPT !.sign = @ + 1]
                  ELSE [ser EXCEPT
                          !.m_ResourceBindings =
                              @ \o GLResourceBindings(pSignature, ser.BaseBindings, ser.ShaderStages),
                          !.BaseBindings = ShiftGLBindings(pSignature, @),
                          !.sign = @ + 1]
    /\ UNCHANGED <<archive, cfg, ctor, m_BaseOffsets, maps, m_Shaders, m_ShadersGuard, th, hist>>

\* Lines 436-437: the caller receives the list and its length.
BindReturn ==
    /\ ser.pc = "return"
    /\ ser' = [ser EXCEPT !.pc = "done", !.NumBindings = Len(ser.m_ResourceBindings),
                          !.pBindings = "data"]
    /\ UNCHANGED <<archive, cfg, ctor, m_BaseOffsets, maps, m_Shaders, m_ShadersGuard, th, hist>>

\* What a call handed to its caller: the list is the device's buffer as the
\* call left it.
Returned(s) ==
    [Info |-> s.Info, NumBindings |-> s.NumBindings, pBindings |-> s.pBindings,
     Bindings |-> s.m_ResourceBindings]

\* The application calls GetPipelineResourceBindings again on the same
\* device, with the variables of its last call as out-parameters.
CallAgain ==
    /\ ser.pc = "done"
    /\ ser.calls < BindCalls
    /\ \E Info \in LaterAttribs :
          ser' = [ser EXCEPT !.pc = "call", !.Info = Info,
                             !.returned = Append(@, Returned(ser))]
    /\ UNCHANGED <<archive, cfg, ctor, m_BaseOffsets, maps, m_Shaders, m_ShadersGuard, th, hist>>

BindNext ==
    \/ GetPipelineResourceBindings
    \/ BindD3D11 \/ BindD3D12 \/ BindVulkan \/ BindGL
    \/ BindReturn
    \/ CallAgain


(***************************************************************************)
(* Specifications.  They share the next-state relation and differ in the   *)
(* archive and in the calls the application makes.                         *)
(***************************************************************************)
Call(op, type, name, cb, out0) ==
    [op |-> op, Type |-> type, Name |-> name, cb |-> cb, out0 |-> out0]

\* One application thread: every entry of the archive, every kind, every
\* callback behaviour, out-parameters that hold null or a stale pointer.
SerialMenu ==
    {Call("pso", GraphicsPipelineStates, n, "absent", Null) :
        n \in {"G1", "G2", "GZero", "GOob", "GIdx", "GType", "GCs", "GRp", "GSig", "Missing"}}
    \cup {Call("pso", ComputePipelineStates, "C1", cb, Null) : cb \in {"absent", "other", "type", "sigReplace"}}
    \cup {Call("pso", TilePipelineStates, "T1", cb, Null) : cb \in {"absent", "none", "varInPlace", "sigCount"}}
    \cup {Call("pso", RayTracingPipelineStates, "R1", cb, Null) : cb \in {"absent", "other", "layoutDefault", "samCount"}}
    \cup {Call("pso", RayTracingPipelineStates, "RZero", "absent", Null)}
    \cup {Call("pso", GraphicsPipelineStates, "G1", cb, Null) : cb \in Mutations}
    \cup {Call("pso", GraphicsPipelineStates, n, "absent", Stale) : n \in {"G2", "GZero", "Missing"}}
    \cup {Call("pso", ty, "Missing", "absent", Stale) :
            ty \in {ComputePipelineStates, TilePipelineStates, RayTracingPipelineStates}}
    \cup {Call("pso", GraphicsPipelineStates, "G2", "type", Stale)}
    \cup {Call("rp", RenderPass, n, cb, out0) :
            n \in {"RP1", "Missing"}, cb \in {"absent", "other"}, out0 \in {Null, Stale}}

\* The archive reader before its constructor runs, and the application.
InitReader(a, c) ==
    /\ archive = a
    /\ cfg = c
    /\ ctor = CtorInit
    /\ m_BaseOffsets = 0
    /\ maps = [ty \in NamedTypes |-> EmptyDir]
    /\ m_Shaders = <<>>
    /\ m_ShadersGuard = {}
    /\ th = [t \in 1..NumThreads |-> IdleFrame]
    /\ hist = [nCreateShader |-> [k \in DOMAIN a.ShaderList |-> 0], cleared |-> FALSE, stale |-> {},
               unpacked |-> {}]

InitWith(a, c) == InitReader(a, c) /\ ser = NoBindingCall

Init ==
    InitWith(MainArchive,
             [Threads |-> {1}, Menu |-> SerialMenu, Calls |-> MaxCalls, Clear |-> TRUE,
              ReadOutcomes |-> {TRUE, FALSE}, DeviceOutcomes |-> {TRUE, FALSE}])

Spec == Init /\ [][Next]_vars


\* Concurrent threads: two graphics pipelines that share shader index 0, a
\* render pass, and ClearResourceCache.
ConcMenu ==
    {Call("pso", GraphicsPipelineStates, "G1", "absent", Null),
     Call("pso", GraphicsPipelineStates, "G2", "absent", Null),
     Call("rp", RenderPass, "RP1", "absent", Null)}

InitConc ==
    InitWith(MainArchive,
             [Threads |-> 1..NumThreads, Menu |-> ConcMenu, Calls |-> ConcCalls, Clear |-> TRUE,
              ReadOutcomes |-> {TRUE, FALSE}, DeviceOutcomes |-> {TRUE, FALSE}])

SpecConc == InitConc /\ [][Next]_vars

\* Concurrent threads that contend for the shaders of one graphics
\* pipeline, or unpack a render pass, or clear the cache.
FairMenu ==
    {Call("pso", GraphicsPipelineStates, "G1", "absent", Null),
     Call("rp", RenderPass, "RP1", "absent", Null)}

InitFair ==
    InitWith(MainArchive,
             [Threads |-> 1..NumThreads, Menu |-> FairMenu, Calls |-> ConcCalls, Clear |-> TRUE,
              ReadOutcomes |-> {TRUE, FALSE}, DeviceOutcomes |-> {TRUE, FALSE}])

\* The concurrent threads under a scheduler that lets every thread run and
\* a mutex that a waiting thread gets when it is released again and again:
\* a thread that can take a step takes one, and a thread that waits for
\* m_ShadersGuard is not passed over for ever.
SpecConcFair ==
    /\ InitFair
    /\ [][Next]_vars
    /\ \A t \in 1..NumThreads :
          /\ WF_vars(ThreadNext(t))
          /\ SF_vars(LoadShaders_Lock(t))
          /\ SF_vars(LoadShaders_WriteLock(t))

\* Concurrent threads that call twice: a pipeline without a render pass and
\* a render pass, each with and without a callback, on a byte source and a
\* device that do not fail.
RepeatCalls == 2

RepeatMenu ==
    {Call("pso", GraphicsPipelineStates, "G2", cb, Null) : cb \in {"absent", "other"}}
    \cup {Call("rp", RenderPass, "RP1", cb, Null) : cb \in {"absent", "other"}}

InitRepeat ==
    InitWith(MainArchive,
             [Threads |-> 1..NumThreads, Menu |-> RepeatMenu, Calls |-> RepeatCalls,
              Clear |-> TRUE, ReadOutcomes |-> {TRUE}, DeviceOutcomes |-> {TRUE}])

SpecRepeat == InitRepeat /\ [][Next]_vars

\* One call of GetPipelineResourceBindings on a serialization device, for
\* every argument of BindingAttribs; no archive is read.
InitBind ==
    /\ InitReader(MainArchive,
                  [Threads |-> {}, Menu |-> {}, Calls |-> 0, Clear |-> FALSE,
                   ReadOutcomes |-> {TRUE}, DeviceOutcomes |-> {TRUE}])
    /\ \E Info \in BindingAttribs : ser = [NoBindingCall EXCEPT !.pc = "call", !.Info = Info]

SpecBind == InitBind /\ [][BindNext]_vars

\* The arrays that hold the signatures of a list in another order.
Reorderings(list) ==
    {[k \in DOMAIN list |-> list[p[k]]] :
        p \in {q \in [DOMAIN list -> DOMAIN list] : \A i, j \in DOMAIN list : i # j => q[i] # q[j]}}

\* The application calls GetPipelineResourceBindings again on the same
\* device with the same signatures in another order of the array, all else
\* as in the call before.
CallReordered ==
    /\ ser.pc = "done"
    /\ ser.calls < BindCalls
    /\ \E list \in Reorderings(ser.Info.ppResourceSignatures) :
          ser' = [ser EXCEPT !.pc = "call", !.Info.ppResourceSignatures = list,
                             !.returned = Append(@, Returned(ser))]
    /\ UNCHANGED <<archive, cfg, ctor, m_BaseOffsets, maps, m_Shaders, m_ShadersGuard, th, hist>>

ReorderNext ==
    \/ GetPipelineResourceBindings
    \/ BindD3D11 \/ BindD3D12 \/ BindVulkan \/ BindGL
    \/ BindReturn
    \/ CallReordered

\* Calls of GetPipelineResourceBindings that differ in the order of the
\* signature array only.
SpecReorder == InitBind /\ [][ReorderNext]_vars


\* The archive with the header of the shader list replaced.
WithShaderList(a, header) ==
    [a EXCEPT !.Chunks = [k \in DOMAIN @ |->
                            IF @[k].Type = Shaders THEN [@[k] EXCEPT !.Data = header]
                            ELSE @[k]]]

\* The archive with the backend data of the entry at an offset moved.
WithEntryData(a, at, devSize, devOffset) ==
    [a EXCEPT !.Common[at].DevSize = devSize, !.Common[at].DevOffset = devOffset]

\* Archives for the constructor: the main archive, whose pipeline GOob has
\* its data past the end of the file; one whose shader list lies past the
\* end; one whose signature S1 lies past the end; one without shaders for
\* the backend.
CtorArchives ==
    {MainArchive,
     WithShaderList(MainArchive, [Size |-> 40, Offset |-> 30]),
     WithEntryData(MainArchive, 1, 4, 70),
     WithShaderList(MainArchive, [Size |-> 0, Offset |-> 0])}

InitCtor ==
    \E a \in CtorArchives :
        InitWith(a, [Threads |-> {1}, Menu |-> SerialMenu, Calls |-> CtorCalls, Clear |-> TRUE,
                     ReadOutcomes |-> {TRUE, FALSE}, DeviceOutcomes |-> {TRUE, FALSE}])

SpecCtor == InitCtor /\ [][Next]_vars

\* Archives in which the header of pipeline G2 makes an unsigned sum wrap:
\* offset + size wraps; the block base + offset wraps; the block base + the
\* end offset wraps.
WrapArchives ==
    {WithEntryData(MainArchive, 4, WordMod - 6, 50),
     WithEntryData(MainArchive, 4, 10, WordMod - 6),
     WithEntryData(MainArchive, 4, 30, WordMod - 56)}

InitWrap ==
    \E a \in WrapArchives :
        InitWith(a, [Threads |-> {1}, Menu |-> SerialMenu, Calls |-> CtorCalls, Clear |-> TRUE,
                     ReadOutcomes |-> {TRUE, FALSE}, DeviceOutcomes |-> {TRUE, FALSE}])

SpecWrap == InitWrap /\ [][Next]_vars


\* The archive with another header.
WithHeader(a, magic, version) == [a EXCEPT !.MagicNumber = magic, !.Version = version]

\* A chunk header of a type no reader exists for.
UnknownChunk(type) == [Type |-> type, Data |-> <<>>]

\* Chunk tables with a repeated type (far apart, adjacent, the shader list,
\* type Undefined, behind an unknown chunk) and with types no reader exists
\* for, below and above ChunkType::Count.
LoadChunkTables ==
    {MainChunks \o <<MainChunks[3]>>,
     <<MainChunks[1], MainChunks[1]>> \o Tail(MainChunks),
     <<MainChunks[2], MainChunks[8], MainChunks[8]>>,
     <<UnknownChunk(ChunkUndefined), UnknownChunk(ChunkUndefined)>> \o MainChunks,
     <<MainChunks[2], UnknownChunk(ChunkUndefined), MainChunks[2]>>,
     <<MainChunks[1], UnknownChunk(ChunkTypeCount)>>,
     <<MainChunks[2], UnknownChunk(ChunkTypeCount + 1), UnknownChunk(ChunkTypeCount + 1)>>,
     <<>>}

\* Archives for the constructor's checks of the header and the chunk table.
LoadArchives ==
    {MainArchive}
    \cup {WithHeader(MainArchive, m, v) :
             m \in {HeaderMagicNumber, HeaderMagicNumber + 1},
             v \in {HeaderVersion - 1, HeaderVersion + 1, 0}}
    \cup {[MainArchive EXCEPT !.Chunks = c] : c \in LoadChunkTables}

InitLoad ==
    \E a \in LoadArchives :
        InitWith(a, [Threads |-> {1}, Menu |-> SerialMenu, Calls |-> CtorCalls, Clear |-> TRUE,
                     ReadOutcomes |-> {TRUE, FALSE}, DeviceOutcomes |-> {TRUE, FALSE}])

SpecLoad == InitLoad /\ [][Next]_vars

(***************************************************************************)
(* Properties.                                                             *)
(***************************************************************************)
Has(log, ev) == \E k \in DOMAIN log : log[k] = ev

Unpacking(t) == t \in cfg.Threads /\ th[t].op = "pso"

Returning(t) == Unpacking(t) /\ th[t].pc = "done"

\* The place of a side effect in the order render pass, signatures, shaders,
\* pipeline (0: not one of them).
CodeRank(ev) ==
    CASE ev \in {"UnpackRenderPass", "CreateRenderPass"} -> 1
      [] ev = "UnpackResourceSignature" -> 2
      [] ev = "CreateShader" -> 3
      [] ev = "CreatePipelineState" -> 4
      [] OTHER -> 0

\* The place of a side effect in the order signatures, render pass, shaders,
\* pipeline.
SignaturesFirstRank(ev) ==
    CASE ev = "UnpackResourceSignature" -> 1
      [] ev \in {"UnpackRenderPass", "CreateRenderPass"} -> 2
      [] ev = "CreateShader" -> 3
      [] ev = "CreatePipelineState" -> 4
      [] OTHER -> 0

InOrder(log, Rank(_)) ==
    \A j, k \in DOMAIN log :
        (j < k /\ Rank(log[j]) > 0 /\ Rank(log[k]) > 0) => Rank(log[j]) <= Rank(log[k])

\* C1 as stated: the device-visible side effects of one pipeline unpack come
\* in the order signatures, render pass (graphics only), shaders, pipeline.
C1_SignaturesThenRenderPass ==
    \A t \in 1..NumThreads : Unpacking(t) => InOrder(th[t].log, SignaturesFirstRank)

\* C1, amended: the device-visible side effects of one pipeline unpack come
\* in the order render pass (graphics only), signatures, shaders, pipeline.
C1_RenderPassThenSignatures ==
    \A t \in 1..NumThreads : Unpacking(t) => InOrder(th[t].log, CodeRank)

\* A graphics pipeline was unpacked and all four kinds of object were made.
C1_Witness ==
    \E t \in 1..NumThreads :
        /\ Returning(t) /\ th[t].status = "ok" /\ th[t].Type = GraphicsPipelineStates
        /\ Has(th[t].log, "CreateRenderPass") /\ Has(th[t].log, "UnpackResourceSignature")
        /\ Has(th[t].log, "CreateShader") /\ Has(th[t].log, "CreatePipelineState")

\* Every thread has made its one call, a pipeline unpack that loaded the
\* pipeline's shaders, and no cache clear took place.
AllUnpacked ==
    /\ ~hist.cleared
    /\ \A t \in cfg.Threads : Returning(t) /\ th[t].status = "ok"

\* The shader a returning call holds for shader index Idx.
Obtained(t, Idx) ==
    th[t].Shaders[CHOOSE k \in DOMAIN th[t].PSO.ShaderIndices :
                      th[t].PSO.ShaderIndices[k] = Idx]

\* C2 as stated: when the threads concurrently unpack pipelines that refer to
\* shader index 0, every call holds for that index the same shader object,
\* the one the cache holds afterwards.
C2_AllObtainTheCached ==
    AllUnpacked => \A t \in cfg.Threads : Obtained(t, 0) = m_Shaders[1].pRes

\* C2, amended: every call holds for index 0 a shader that one of the calls
\* constructed for that index, and the cache afterwards holds the shader
\* that at least one of the calls holds (the one installed last).
C2_CachedIsObtainedBySome ==
    AllUnpacked =>
        /\ \A t \in cfg.Threads :
              /\ Obtained(t, 0) # Null
              /\ Obtained(t, 0)[1] = "shader" /\ Obtained(t, 0)[5] = 0
              /\ Obtained(t, 0)[2] \in cfg.Threads
        /\ \E t \in cfg.Threads : Obtained(t, 0) = m_Shaders[1].pRes

\* Two calls hold different shader objects for index 0.
C2_Witness ==
    /\ AllUnpacked
    /\ \E t, u \in cfg.Threads : Obtained(t, 0) # Obtained(u, 0)

\* Every thread has made its one call, a pipeline unpack (both pipelines of
\* the concurrent menu refer to shader index 0), and no cache clear took
\* place.
AllReturned ==
    /\ ~hist.cleared
    /\ \A t \in cfg.Threads : Returning(t)

NoDeviceFailure ==
    \A t \in cfg.Threads : th[t].err \notin {"DeviceConstructionFailed", "SignatureFailed"}

\* No read of the byte source failed: none in the calls, and the constructor
\* read the shader list (ReadIndexedResources filled the table).
NoReadFailure ==
    /\ \A t \in cfg.Threads : th[t].err # "IoError"
    /\ Len(m_Shaders) = Len(archive.ShaderList)

CreatedOnceToN ==
    /\ hist.nCreateShader[1] >= 1
    /\ hist.nCreateShader[1] <= Cardinality(cfg.Threads)
    /\ m_Shaders[1].pRes # Null

C4_SharedShaderCreatedOnce ==
    /\ [](\A t \in 1..NumThreads :
            (Returning(t) /\ th[t].status = "ok") =>
                \A k \in DOMAIN th[t].Shaders :
                    m_Shaders[th[t].PSO.ShaderIndices[k] + 1].pRes = th[t].Shaders[k])
    /\ [][\A k \in DOMAIN m_Shaders :
            (k \in DOMAIN hist.nCreateShader /\ hist.nCreateShader'[k] # hist.nCreateShader[k])
                => m_Shaders[k].pRes = Null]_vars

\* The second call unpacked G2 with the shader the first call constructed.
C4_Witness ==
    \E t \in 1..NumThreads :
        /\ Returning(t) /\ th[t].status = "ok" /\ th[t].calls = 2 /\ th[t].Name = "G2"
        /\ th[t].Shaders[1] = <<"shader", t, 1, 1, 0>>
        /\ hist.nCreateShader[1] = 1

\* A thread is at a step that reads the byte source, calls the device or
\* calls the application's callback.
AtExternalCall(t) ==
    th[t].pc \in {"ReadPSOData", "ReadRPData", "DeviceCreateRenderPass",
                  "CreateResourceSignatures", "UnpackDeviceData", "LoadShaders_Create",
                  "ModifyPipelineStateCreateInfo", "CreatePipelineState"}

\* C5: no thread holds the shader-cache mutex at a step that reads the byte
\* source, calls the device or calls the callback; the constructor does not
\* hold it while it reads the header and the chunk table.
C5_NoLockAcrossExternalCalls ==
    /\ \A t \in 1..NumThreads : AtExternalCall(t) => t \notin m_ShadersGuard
    /\ ctor.pc \in {"ReadHeader", "ReadChunks", "ProcessChunks"} => CtorThread \notin m_ShadersGuard

\* One thread is about to read and construct a shader while another holds
\* the mutex.
C5_Witness ==
    \E t, u \in 1..NumThreads :
        t # u /\ th[t].pc = "LoadShaders_Create" /\ u \in m_ShadersGuard

\* A step in which ClearResourceCache returns.
ClearReturns ==
    \E t \in 1..NumThreads : th[t].pc = "ClearResourceCache" /\ th'[t].pc = "idle"

NoShaderCached(table) == \A k \in DOMAIN table : table[k].pRes = Null

NoObjectCached(dirs) ==
    \A ty \in NamedTypes : \A n \in DOMAIN dirs[ty] : dirs[ty][n].pRes = Null

Failed(t) == Returning(t) /\ th[t].status = "failed"

\* C7 as stated: a pipeline unpack that fails leaves the directory's slot of
\* that name empty.
C7_FailureLeavesSlotEmpty ==
    \A t \in 1..NumThreads :
        Failed(t) => GetResource(maps[th[t].Type], th[t].Name) = Null

\* C7, amended: with one thread, a pipeline unpack that fails leaves the
\* directory's slot of that name as it was when the call was made (empty if
\* it was empty); a call returns a cached result only when the slot was
\* filled, and otherwise it reads the entry again.
C7_FailureLeavesSlotAsItWas ==
    \A t \in 1..NumThreads :
        /\ Failed(t) => GetResource(maps[th[t].Type], th[t].Name) = th[t].slot0
        /\ (Unpacking(t) /\ th[t].status = "cached") => th[t].slot0 # Null
        /\ (Returning(t) /\ th[t].status # "cached" /\ th[t].err # "NotFound")
              => (th[t].log # <<>> /\ th[t].log[1] = "Read")

\* A call with a callback failed after an earlier call had cached the
\* pipeline: the slot is still filled.
C7_Witness ==
    \E t \in 1..NumThreads :
        /\ Failed(t) /\ th[t].cb # "absent" /\ th[t].slot0 # Null
        /\ GetResource(maps[th[t].Type], th[t].Name) = th[t].slot0

\* C8: an Unpack* call (pipeline or render pass) that fails returns with its
\* out-parameter null, whatever the caller had put there.
C8_FailureNullsOut ==
    \A t \in 1..NumThreads :
        (t \in cfg.Threads /\ th[t].pc = "done" /\ th[t].status = "failed")
            => th[t].out = Null

\* The fields of a create-info the callback must not change.
Locked(ci) ==
    [PipelineType |-> ci.PipelineType, ResourceLayout |-> ci.ResourceLayout,
     ResourceSignaturesCount |-> ci.ResourceSignaturesCount,
     ppResourceSignatures |-> ci.ppResourceSignatures]

\* C9: when the callback has changed the pipeline type, the resource layout
\* or the signature list of the create-info, the unpack fails and the
\* device's Create*PipelineState is not called for it.
C9_IllegalModificationFails ==
    \A t \in 1..NumThreads :
        (Unpacking(t) /\ Has(th[t].log, "Callback")
           /\ Locked(th[t].PSO.CreateInfo) # Locked(th[t].PSO.Saved))
        => /\ th[t].pc = "done" /\ th[t].status = "failed"
           /\ th[t].err = "IllegalModification"
           /\ ~Has(th[t].log, "CreatePipelineState")

\* The callback replaced a signature pointer in place and the unpack failed.
C9_Witness ==
    \E t \in 1..NumThreads :
        /\ Failed(t) /\ th[t].cb = "sigReplace" /\ th[t].err = "IllegalModification"
        /\ Locked(th[t].PSO.CreateInfo) # Locked(th[t].PSO.Saved)

\* The data of a header ends past the end of the file, in integers.
PastEnd(Header) ==
    Header.Size # 0 /\ archive.BlockBaseOffset + Header.Offset + Header.Size > archive.Size

\* The same sum as GetDeviceSpecificData computes it, in unsigned words.
PastEndU32(Header) ==
    Header.Size # 0 /\ AddU32(archive.BlockBaseOffset, GetEndOffset(Header)) > archive.Size

EntryHeader(e) == [Size |-> e.DevSize, Offset |-> e.DevOffset]

\* The place of the shader list in the chunk table.
ShaderListChunk ==
    CHOOSE k \in DOMAIN archive.Chunks : archive.Chunks[k].Type = Shaders

\* Some pipeline, signature or shader-list entry of the archive has its
\* backend data past the end of the file.
SomeEntryPastEnd ==
    \/ \E k \in DOMAIN archive.Common :
          /\ archive.Common[k].Type \in PSOTypes \cup {ResourceSignature}
          /\ PastEnd(EntryHeader(archive.Common[k]))
    \/ PastEnd(archive.Chunks[ShaderListChunk].Data)

\* C10 as stated: when some entry of the archive has its backend data past
\* the end of the file, the construction of the reader fails.
C10_PastEndFailsConstruction ==
    SomeEntryPastEnd => ctor.pc # "ok"

\* C10, amended: data past the end of the file does not fail the
\* construction, which fails only when a read fails (the header and the
\* chunk table of these archives being sound).  It is found when the data
\* is fetched: a shader list past the end (in the 32-bit sum the code
\* computes) leaves the shader table empty, and the unpack of a pipeline
\* whose data lies past the end fails before any shader or pipeline is
\* constructed.
C10_PastEndFoundWhenFetched ==
    /\ ctor.pc = "failed" => ctor.err = "IoError"
    /\ (ctor.pc = "ok" /\ PastEndU32(archive.Chunks[ShaderListChunk].Data)) => m_Shaders = <<>>
    /\ \A t \in 1..NumThreads :
          (Returning(t) /\ PastEndU32(th[t].PSO.pHeader))
            => /\ th[t].status = "failed"
               /\ ~Has(th[t].log, "CreateShader") /\ ~Has(th[t].log, "CreatePipelineState")

\* The reader was constructed from an archive whose shader list lies past
\* the end of the file, and the unpack of pipeline GOob of that archive
\* failed on its offset.
C10_Witness ==
    /\ ctor.pc = "ok" /\ m_Shaders = <<>>
    /\ PastEnd(archive.Chunks[ShaderListChunk].Data)
    /\ \E t \in 1..NumThreads :
          Returning(t) /\ th[t].Name = "GOob" /\ th[t].err = "InvalidOffset"

NothingBuilt ==
    /\ ctor.Chunks = <<>> /\ ctor.Dispatched = <<>>
    /\ \A ty \in NamedTypes : maps[ty] = EmptyDir
    /\ m_Shaders = <<>>

\* C11: when the version of the header is not the compiled HeaderVersion,
\* the construction fails at the header, before the chunk table is read or
\* a directory is built; the header having been read, the error is
\* UnsupportedVersion when the magic number is right and BadMagic when it
\* is wrong too.
C11_VersionMismatchFails ==
    (archive.Version # HeaderVersion /\ ctor.pc # "ReadHeader")
        => /\ ctor.pc = "failed"
           /\ NothingBuilt
           /\ ctor.err # "IoError" =>
                 ctor.err = (IF archive.MagicNumber = HeaderMagicNumber
                             THEN "UnsupportedVersion" ELSE "BadMagic")

\* The version is the compiled one plus one, the magic number is right, and
\* the construction failed on the version.
C11_Witness ==
    /\ archive.Version = HeaderVersion + 1 /\ archive.MagicNumber = HeaderMagicNumber
    /\ ctor.pc = "failed" /\ ctor.err = "UnsupportedVersion"

\* Two chunk headers of the table have the same type.
RepeatedType(chunks) ==
    \E j, k \in DOMAIN chunks : j < k /\ chunks[j].Type = chunks[k].Type

HandledTypes == NamedTypes \cup {ArchiveDebugInfo, Shaders}

CtorEnded == ctor.pc \in {"ok", "failed"}

\* C12 as stated: when the chunk table has two headers of the same type, the
\* construction fails with DuplicateChunk (no read having failed) and no
\* type is dispatched twice.
C12_RepeatedTypeIsDuplicateChunk ==
    (RepeatedType(archive.Chunks) /\ CtorEnded /\ ctor.err # "IoError")
        => /\ ctor.pc = "failed" /\ ctor.err = "DuplicateChunk"
           /\ ~RepeatedType([k \in DOMAIN ctor.Dispatched |-> [Type |-> ctor.Dispatched[k]]])

\* C12, amended: when the types of the chunk table are all below
\* ChunkType::Count, no type is dispatched twice, a table with two headers
\* of the same type fails the construction, and the error is DuplicateChunk
\* when the loop stops at a chunk whose type, one of the eight handled
\* types, an earlier chunk had (an earlier failure gives its own error).
C12_SecondChunkNotDispatched ==
    (\A k \in DOMAIN archive.Chunks : archive.Chunks[k].Type < ChunkTypeCount)
        => /\ ~RepeatedType([k \in DOMAIN ctor.Dispatched |-> [Type |-> ctor.Dispatched[k]]])
           /\ (RepeatedType(archive.Chunks) /\ CtorEnded) => ctor.pc = "failed"
           /\ (/\ ctor.pc = "failed" /\ ctor.i \in DOMAIN ctor.Chunks
               /\ ctor.Chunks[ctor.i].Type \in HandledTypes
               /\ \E j \in 1..(ctor.i - 1) : ctor.Chunks[j].Type = ctor.Chunks[ctor.i].Type)
              => ctor.err = "DuplicateChunk"

\* The last chunk repeats the type of the third one; every chunk before it
\* was dispatched and the construction failed on it.
C12_Witness ==
    /\ archive.Chunks = MainChunks \o <<MainChunks[3]>>
    /\ ctor.pc = "failed" /\ ctor.err = "DuplicateChunk"
    /\ ctor.i = Len(archive.Chunks) /\ Len(ctor.Dispatched) = Len(archive.Chunks) - 1

\* C13: a chunk whose type is none of the eight handled types fails the
\* construction with UnknownChunkType, and the set of processed types is
\* never indexed with a type at or above ChunkType::Count.
C13_UnknownTypeFailsInRange ==
    /\ ~ctor.ub
    /\ (/\ ctor.pc = "failed" /\ ctor.i \in DOMAIN ctor.Chunks
        /\ ctor.Chunks[ctor.i].Type \notin HandledTypes)
       => ctor.err = "UnknownChunkType"


\* The entry of the pipeline was read and decoded (ReadPSOData returned true).
EntryRead(t) == Unpacking(t) /\ th[t].PSO.CreateInfo # Null

\* The render pass and every signature the entry names were obtained, so the
\* call went on to the backend's block.
ReferencesResolved(t) ==
    /\ EntryRead(t)
    /\ th[t].PSO.RenderPassName # "" => th[t].PSO.CreateInfo.pRenderPass # Null
    /\ Len(th[t].PSO.CreateInfo.ppResourceSignatures)
         = th[t].PSO.CreateInfo.ResourceSignaturesCount

\* The positions of an unpack call from the shader list to the device call.
ShaderAndPipelineStages ==
    {"LoadShaders", "LoadShaders_Lock", "LoadShaders_Lookup", "LoadShaders_Create",
     "LoadShaders_WriteLock", "LoadShaders_Install", "SetShaders",
     "ModifyPipelineStateCreateInfo", "CreatePipelineState"}

\* C14: an unpack call whose entry records size 0 for the backend's block
\* never reaches the shader list, creates no shader and never asks the device
\* for a pipeline; it fails, and with MissingBackendData once the objects the
\* entry refers to were resolved.
C14_ZeroSizeBlockFails ==
    \A t \in cfg.Threads :
        (EntryRead(t) /\ th[t].PSO.pHeader.Size = 0) =>
            /\ th[t].pc \notin ShaderAndPipelineStages
            /\ th[t].Shaders = <<>>
            /\ ~Has(th[t].log, "CreateShader")
            /\ ~Has(th[t].log, "CreatePipelineState")
            /\ th[t].pc = "done" =>
                  /\ th[t].status = "failed"
                  /\ ReferencesResolved(t) => th[t].err = "MissingBackendData"

C14_Witness ==
    \E t \in cfg.Threads :
        /\ Returning(t) /\ ReferencesResolved(t)
        /\ th[t].Type = RayTracingPipelineStates
        /\ th[t].PSO.pHeader.Size = 0
        /\ th[t].err = "MissingBackendData"
        /\ Has(th[t].log, "UnpackResourceSignature")

\* A call of Unpack*PSO or UnpackRenderPass by the application that is about
\* to return.
CallEnds(t) == t \in cfg.Threads /\ th[t].op \in {"pso", "rp"} /\ th[t].pc = "done"

\* The call of thread t has no callback and began after an unpack without a
\* callback had constructed and installed an object under the same name.
LaterUnpack(t) == CallEnds(t) /\ th[t].cb = "absent" /\ th[t].prior # {}

WithCallback(t) == t \in cfg.Threads /\ th[t].op \in {"pso", "rp"} /\ th[t].cb # "absent"

\* The event of the device call that ends an unpack of the given operation.
DeviceCallOf(op) == IF op = "rp" THEN "CreateRenderPass" ELSE "CreatePipelineState"

\* The directory slot of the name the call of thread t asks for.
SlotOf(dirs, t) == GetResource(dirs[th[t].Type], th[t].Name)

\* C16: a call with a mutation callback never returns the cached object: it
\* reads the entry first whenever the name exists, a call that succeeds has
\* called the device and returns the new object, and neither a step of the
\* call nor the call as a whole changes the slot of the requested name.
C16_CallbackBypassesCache ==
    /\ [](\A t \in 1..NumThreads :
            (WithCallback(t) /\ th[t].pc = "done") =>
                /\ th[t].status \in {"ok", "failed"}
                /\ th[t].Name \in DOMAIN maps[th[t].Type]
                      => (th[t].log # <<>> /\ th[t].log[1] = "Read")
                /\ th[t].status = "ok" =>
                      /\ Has(th[t].log, DeviceCallOf(th[t].op))
                      /\ th[t].out = <<th[t].op, t, th[t].calls>>
                      /\ th[t].out # th[t].slot0
                /\ SlotOf(maps, t) = th[t].slot0)
    /\ [][\A t \in 1..NumThreads :
            (WithCallback(t) /\ th'[t] # th[t]) => SlotOf(maps', t) = SlotOf(maps, t)]_vars

\* A ray-tracing pipeline that an earlier call had cached is unpacked with a
\* callback: the entry is read, the device constructs a second pipeline and
\* the slot still holds the first one.
C16_Witness ==
    \E t \in 1..NumThreads :
        /\ WithCallback(t) /\ th[t].pc = "done" /\ th[t].status = "ok"
        /\ th[t].Type = RayTracingPipelineStates
        /\ th[t].slot0 # Null /\ SlotOf(maps, t) = th[t].slot0
        /\ th[t].log[1] = "Read" /\ Has(th[t].log, "Callback")
        /\ Has(th[t].log, "CreatePipelineState")
        /\ th[t].out # th[t].slot0

\* The ray-tracing unpack of thread t is past the remap (lines 718-732): it
\* is at the callback, at the device call, or the device was called.
Remapped(t) ==
    /\ Unpacking(t) /\ th[t].Type = RayTracingPipelineStates
    /\ \/ th[t].pc \in {"ModifyPipelineStateCreateInfo", "CreatePipelineState"}
       \/ Has(th[t].log, "CreatePipelineState")

\* The archive entry the call of thread t unpacks.
StoredEntry(t) == archive.Common[maps[th[t].Type][th[t].Name].Offset]

\* The values a shader field may hold once it is resolved.
ResolvedShaders(Loaded) == {Null} \cup {Loaded[k] : k \in DOMAIN Loaded}

\* What the remap owes a field that stored index k: the k-th loaded shader
\* (the shader of the k-th index of the entry's shader list) for k below the
\* number of loaded shaders, null for the index that stands
\* for no shader, and in any case a shader or null.
FieldResolved(Loaded, Indices, k, field) ==
    /\ k < Len(Loaded) =>
          (field = Loaded[k + 1] /\ field # Null
           /\ field[1] = "shader" /\ field[5] = Indices[k + 1])
    /\ k = NoShaderIndex => field = Null
    /\ field \in ResolvedShaders(Loaded)

\* C17: once the ray-tracing remap has run, and so when the device is asked
\* for the pipeline, every shader field of every general, triangle-hit and
\* procedural-hit group holds the k-th loaded shader if it stored k below
\* the number of loaded shaders, null if it stored the no-shader index, and
\* never an index.
C17_RemapResolvesEveryField ==
    \A t \in 1..NumThreads :
        Remapped(t) =>
            LET ci == th[t].PSO.CreateInfo
                e  == StoredEntry(t)
                Loaded == th[t].Shaders
            IN  /\ Len(Loaded) = Len(e.ShaderIndices)
                /\ DOMAIN ci.GeneralShaders = DOMAIN e.GeneralShaders
                /\ \A g \in DOMAIN e.GeneralShaders :
                      FieldResolved(Loaded, e.ShaderIndices, e.GeneralShaders[g], ci.GeneralShaders[g])
                /\ DOMAIN ci.TriangleHitShaders = DOMAIN e.TriangleHitShaders
                /\ \A g \in DOMAIN e.TriangleHitShaders : \A k \in 1..2 :
                      FieldResolved(Loaded, e.ShaderIndices, e.TriangleHitShaders[g][k],
                                    ci.TriangleHitShaders[g][k])
                /\ DOMAIN ci.ProceduralHitShaders = DOMAIN e.ProceduralHitShaders
                /\ \A g \in DOMAIN e.ProceduralHitShaders : \A k \in 1..3 :
                      FieldResolved(Loaded, e.ShaderIndices, e.ProceduralHitShaders[g][k],
                                    ci.ProceduralHitShaders[g][k])

\* The device was asked for ray-tracing pipeline R1 with two loaded shaders:
\* the triangle-hit group that stored <<1, no shader>> holds the second
\* shader and null, the procedural-hit group holds null and both shaders.
C17_Witness ==
    \E t \in 1..NumThreads :
        /\ Remapped(t) /\ th[t].Name = "R1" /\ Has(th[t].log, "CreatePipelineState")
        /\ Len(th[t].Shaders) = 2 /\ th[t].Shaders[1] # th[t].Shaders[2]
        /\ th[t].PSO.CreateInfo.TriangleHitShaders[1] = <<th[t].Shaders[2], Null>>
        /\ th[t].PSO.CreateInfo.ProceduralHitShaders[1]
             = <<Null, th[t].Shaders[1], th[t].Shaders[2]>>
        /\ th[t].PSO.CreateInfo.GeneralShaders[1] = th[t].Shaders[1]

\* The signatures passed to the call of GetPipelineResourceBindings.
PassedSignatures ==
    {ser.Info.ppResourceSignatures[k] : k \in DOMAIN ser.Info.ppResourceSignatures}

\* The passed signature that declares a resource or immutable sampler of
\* the given name (the names of the model are unique).
OwnerOf(name) ==
    CHOOSE sig \in PassedSignatures :
        \/ \E r \in DOMAIN sig.Resources : sig.Resources[r].Name = name
        \/ \E r \in DOMAIN sig.ImmutableSamplers :
              sig.ImmutableSamplers[r].SamplerOrTextureName = name

\* The resource of that name in a signature.
ResourceOf(sig, name) ==
    sig.Resources[CHOOSE r \in DOMAIN sig.Resources : sig.Resources[r].Name = name]

\* The passed signatures whose binding index is below k.
EarlierSignatures(k) == {sig \in PassedSignatures : sig.BindingIndex < k}

\* A call for the given backend whose list holds the bindings emitted so far.
BindingCall(DeviceType) ==
    ser.pc \notin {"none", "call"} /\ ser.Info.DeviceType = DeviceType

BindingsDone(DeviceType) == BindingCall(DeviceType) /\ ser.pc = "done"

Registers == [k \in DOMAIN ser.m_ResourceBindings |-> ser.m_ResourceBindings[k].Register]

Spaces == [k \in DOMAIN ser.m_ResourceBindings |-> ser.m_ResourceBindings[k].Space]

\* C18: every Vulkan binding has the binding index of its resource as
\* register and, as space, the resource's descriptor set plus the number of
\* descriptor-set layouts (a static/mutable and a dynamic one, each counted
\* when the signature has it) of the signatures with a lower binding index;
\* signatures A (two resources, static/mutable set) and B (one resource,
\* dynamic set) yield spaces 0, 0, 1 and registers 0, 1, 0.
C18_VulkanRegisterAndSpace ==
    /\ BindingCall(RENDER_DEVICE_TYPE_VULKAN) =>
          \A k \in DOMAIN ser.m_ResourceBindings :
              LET Dst == ser.m_ResourceBindings[k]
                  sig == OwnerOf(Dst.Name)
                  res == ResourceOf(sig, Dst.Name)
              IN  /\ Dst.Register = res.BindingIndex
                  /\ Dst.Space = SumOver([e \in PassedSignatures |-> DescriptorSetLayouts(e)],
                                           EarlierSignatures(sig.BindingIndex))
                                   + res.DescrSet
    /\ (/\ BindingsDone(RENDER_DEVICE_TYPE_VULKAN)
        /\ ser.Info.ppResourceSignatures = <<SigA, SigB>>
        /\ ser.Info.ShaderStages = SHADER_TYPE_UNKNOWN)
          => (Spaces = <<0, 0, 1>> /\ Registers = <<0, 1, 0>>)

\* The Vulkan call with C passed before D (slots 2 and 0, both with two
\* descriptor sets) returned the three bindings of D in spaces 0, 1, 1 and
\* the four of C in spaces 2, 3, 3, 2.
C18_Witness ==
    /\ BindingsDone(RENDER_DEVICE_TYPE_VULKAN)
    /\ ser.Info.ppResourceSignatures = <<SigC, SigD>>
    /\ ser.Info.ShaderStages = SHADER_TYPE_UNKNOWN
    /\ ser.NumBindings = 7
    /\ Spaces = <<0, 1, 1, 2, 3, 3, 2>>
    /\ Registers = <<0, 0, 1, 0, 0, 1, 1>>

\* The base of a range and a stage when the D3D11 loop reaches the
\* signature of binding index k.
D3D11BaseOf(range, stage, k) ==
    (IF range = "UAV" /\ stage = "PIXEL" THEN ser.Info.NumRenderTargets ELSE 0)
    + SumOver([e \in PassedSignatures |-> e.Counters[range][stage]], EarlierSignatures(k))

\* The range and the bind points of the resource or immutable sampler of a
\* name in a signature.
D3D11AttribsOf(sig, name) ==
    IF \E r \in DOMAIN sig.Resources : sig.Resources[r].Name = name
    THEN [Range |-> ShaderResourceTypeToRange(ResourceOf(sig, name).ResourceType),
          BindPoints |-> ResourceOf(sig, name).BindPoints]
    ELSE [Range |-> "SAMPLER",
          BindPoints |-> sig.ImmutableSamplers[
              CHOOSE r \in DOMAIN sig.ImmutableSamplers :
                  sig.ImmutableSamplers[r].SamplerOrTextureName = name].BindPoints]

\* C19: every D3D11 binding is for one stage, has space 0 and has as
\* register the bind point of its resource in that stage plus the base of
\* the resource's range and that stage: the counters of the signatures with
\* a lower binding index, plus NumRenderTargets for UAVs of the pixel stage
\* only.  A pixel-stage UAV at bind point 0 gets register 3 with three
\* render targets.
C19_D3D11RegisterAndSpace ==
    /\ BindingCall(RENDER_DEVICE_TYPE_D3D11) =>
          \A k \in DOMAIN ser.m_ResourceBindings :
              LET Dst == ser.m_ResourceBindings[k]
                  sig == OwnerOf(Dst.Name)
                  att == D3D11AttribsOf(sig, Dst.Name)
              IN  /\ Dst.Space = 0
                  /\ \E stage \in SupportedStagesMask :
                        /\ Dst.ShaderStages = {stage}
                        /\ att.BindPoints[stage] # InvalidBindPoint
                        /\ Dst.Register = D3D11BaseOf(att.Range, stage, sig.BindingIndex)
                                            + att.BindPoints[stage]
    /\ (/\ BindingsDone(RENDER_DEVICE_TYPE_D3D11)
        /\ ser.Info.ppResourceSignatures = <<SigA>>
        /\ ser.Info.NumRenderTargets = 3)
          => \A k \in DOMAIN ser.m_ResourceBindings :
                ser.m_ResourceBindings[k].Name = "A.uav" => Registers[k] = 3

\* With three render targets and signatures D and B: the UAVs of D are at
\* register 0 in the vertex and compute stages and at 3 and 4 in the pixel
\* stage; the UAV of B is at 5 in the pixel stage and at 1 in the compute
\* stage, its sampler at 0.
C19_Witness ==
    /\ BindingsDone(RENDER_DEVICE_TYPE_D3D11)
    /\ ser.Info.NumRenderTargets = 3
    /\ ser.Info.ShaderStages = SHADER_TYPE_UNKNOWN
    /\ ser.Info.ppResourceSignatures = <<SigD, SigB>>
    /\ Registers = <<0, 3, 0, 4, 5, 1, 0>>
    /\ \A k \in DOMAIN Spaces : Spaces[k] = 0

\* C20: every D3D12 binding has the register of its resource unchanged and,
\* as space, the resource's space plus the base register space that the
\* root signature gives the slot of its signature; so the resources of one
\* signature that are in space 0 all get that base.
C20_D3D12RegisterAndSpace ==
    BindingCall(RENDER_DEVICE_TYPE_D3D12) =>
        \A k \in DOMAIN ser.m_ResourceBindings :
            LET Dst  == ser.m_ResourceBindings[k]
                sig  == OwnerOf(Dst.Name)
                res  == ResourceOf(sig, Dst.Name)
                base == GetBaseRegisterSpace(SortResourceSignatures(ser.Info).Signatures,
                                             sig.BindingIndex)
            IN  /\ Dst.Register = res.Register
                /\ Dst.Space = base + res.Space
                /\ res.Space = 0 => Dst.Space = base
                /\ Dst.ShaderStages = res.ShaderStages

\* Signatures A, B and C on D3D12: the resources of A are in space 0, the
\* one of B in space 1, those of C in spaces 2 and 3 with their registers.
C20_Witness ==
    /\ BindingsDone(RENDER_DEVICE_TYPE_D3D12)
    /\ ser.Info.ppResourceSignatures = <<SigC, SigB, SigA>>
    /\ ser.Info.ShaderStages = SHADER_TYPE_UNKNOWN
    /\ Spaces = <<0, 0, 1, 2, 3, 2, 2>>
    /\ Registers = <<0, 0, 0, 0, 0, 1, 2>>

\* A call for a GL or a GLES device.
GLCall == BindingCall(RENDER_DEVICE_TYPE_GL) \/ BindingCall(RENDER_DEVICE_TYPE_GLES)

\* The base of a range when the GL loop reaches the signature of binding
\* index k.
GLBaseOf(range, k) ==
    SumOver([e \in PassedSignatures |-> e.BindingCount[range]], EarlierSignatures(k))

\* C21: every GL or GLES binding is for one stage, has space 0 and has as
\* register the cache offset of its resource plus the base of the
\* resource's range, which counts the bindings of the signatures with a
\* lower binding index and is the same for every stage; so the bindings of
\* one resource all carry the same register.
C21_GLRegisterAndSpace ==
    GLCall =>
        \A k \in DOMAIN ser.m_ResourceBindings :
            LET Dst == ser.m_ResourceBindings[k]
                sig == OwnerOf(Dst.Name)
                res == ResourceOf(sig, Dst.Name)
            IN  /\ Dst.Space = 0
                /\ \E stage \in SupportedStagesMask \cap res.ShaderStages :
                      Dst.ShaderStages = {stage}
                /\ Dst.Register = GLBaseOf(PipelineResourceToBindingRange(res), sig.BindingIndex)
                                    + res.CacheOffset
                /\ \A j \in DOMAIN ser.m_ResourceBindings :
                      ser.m_ResourceBindings[j].Name = Dst.Name
                          => ser.m_ResourceBindings[j].Register = Dst.Register

\* Signatures D and C on GL with all stages: the storage buffers of D are at
\* registers 0, 1, 1, 2 (the second one in two stages), those of C follow
\* at 3, 6, 6, and the texture of C is at 0 in both of its stages.
C21_Witness ==
    /\ BindingsDone(RENDER_DEVICE_TYPE_GL)
    /\ ser.Info.ppResourceSignatures = <<SigC, SigD>>
    /\ ser.Info.ShaderStages = SHADER_TYPE_UNKNOWN
    /\ Registers = <<0, 1, 1, 2, 0, 0, 3, 6, 6>>
    /\ \A k \in DOMAIN Spaces : Spaces[k] = 0

\* The names of the bindings of the list, in the order of the list.
Names == [k \in DOMAIN ser.m_ResourceBindings |-> ser.m_ResourceBindings[k].Name]

\* The signatures in the slots of the sorted array.
SlotSignatures ==
    {ser.Signatures[k] : k \in 1..ser.SignaturesCount} \ {NoSignature}

\* Where a binding stands in the declared order of its signature: the
\* resources by their index, the immutable samplers behind them.
DeclaredPosition(Dst) ==
    LET sig == OwnerOf(Dst.Name)
    IN  IF \E r \in DOMAIN sig.Resources : sig.Resources[r].Name = Dst.Name
        THEN CHOOSE r \in DOMAIN sig.Resources : sig.Resources[r].Name = Dst.Name
        ELSE Len(sig.Resources)
             + (CHOOSE r \in DOMAIN sig.ImmutableSamplers :
                    sig.ImmutableSamplers[r].SamplerOrTextureName = Dst.Name)

\* The list is in the order of the binding indices and, within a signature,
\* of the declaration, immutable samplers last.
EmitOrder ==
    \A i, j \in DOMAIN ser.m_ResourceBindings :
        i < j =>
            LET a == ser.m_ResourceBindings[i]
                b == ser.m_ResourceBindings[j]
            IN  \/ OwnerOf(a.Name).BindingIndex < OwnerOf(b.Name).BindingIndex
                \/ /\ OwnerOf(a.Name) = OwnerOf(b.Name)
                   /\ DeclaredPosition(a) <= DeclaredPosition(b)

\* The bindings of the list for an immutable sampler.
SamplerBindings(ImtblSam) ==
    {k \in DOMAIN ser.m_ResourceBindings :
        /\ ser.m_ResourceBindings[k].Name = ImtblSam.SamplerOrTextureName
        /\ ser.m_ResourceBindings[k].ResourceType = "SAMPLER"}

\* A call that returned a list.
ListReturned == ser.pc = "done" /\ ser.Info.DeviceType \in SupportedDevices

\* C22 as stated: whatever the backend, the returned list is in emit order
\* and holds one Sampler binding for each immutable sampler of each
\* signature.
C22_SamplerBindingOnEveryBackend ==
    ListReturned =>
        /\ EmitOrder
        /\ \A sig \in SlotSignatures : \A samp \in DOMAIN sig.ImmutableSamplers :
              Cardinality(SamplerBindings(sig.ImmutableSamplers[samp])) = 1

\* C22: on every backend the list is in the order of the binding indices
\* and, within a signature, of the declared resources, the bindings of the
\* immutable samplers behind those of the resources; immutable samplers get
\* bindings on D3D11 only, one of type Sampler per stage that is requested,
\* is a graphics or compute stage and is in the sampler's mask, and none on
\* D3D12, Vulkan, GL and GLES.
C22_EmitOrder ==
    /\ ser.pc \notin {"none", "call"} => EmitOrder
    /\ ListReturned =>
          \A sig \in SlotSignatures : \A samp \in DOMAIN sig.ImmutableSamplers :
              LET ImtblSam == sig.ImmutableSamplers[samp]
              IN  /\ Cardinality(SamplerBindings(ImtblSam))
                        = IF ser.Info.DeviceType = RENDER_DEVICE_TYPE_D3D11
                          THEN Cardinality((ser.ShaderStages \cap SupportedStagesMask)
                                              \cap ImtblSam.ShaderStages)
                          ELSE 0
                  /\ \A k \in SamplerBindings(ImtblSam) :
                        /\ Cardinality(ser.m_ResourceBindings[k].ShaderStages) = 1
                        /\ ser.m_ResourceBindings[k].ShaderStages \subseteq ImtblSam.ShaderStages

\* Signatures S, A and B on D3D11 with all stages: each signature's
\* resources, then its samplers, the sampler of two stages twice.
C22_Witness ==
    /\ BindingsDone(RENDER_DEVICE_TYPE_D3D11)
    /\ ser.Info.ppResourceSignatures = <<SigS, SigA, SigB>>
    /\ ser.Info.ShaderStages = SHADER_TYPE_UNKNOWN
    /\ Names = <<"A.cb", "A.cb", "A.uav", "B.uav", "B.uav", "B.sam",
                 "S.tex", "S.tex", "S.samA", "S.samA", "S.samB">>

\* The binding indices of the signatures of a call.
BindingIndices(Info) ==
    {Info.ppResourceSignatures[k].BindingIndex : k \in DOMAIN Info.ppResourceSignatures}

\* The binding indices leave a slot below the highest one empty.
HasGap(Info) ==
    \E k \in 0..MaxSignatures :
        /\ k \notin BindingIndices(Info)
        /\ \E i \in BindingIndices(Info) : i > k

\* A binding index is not a slot of the array.
OutOfRange(Info) == \E i \in BindingIndices(Info) : i >= MaxSignatures

\* C23 as stated: a call on a compiled-in backend whose signatures leave a
\* gap, or have a binding index past the array, ends with the error
\* InvalidSignatureLayout, an empty list and no access outside the array.
C23_GapOrOutOfRangeFails ==
    (/\ ser.pc \in {"done", "crashed"}
     /\ ser.Info.DeviceType \in SupportedDevices
     /\ HasGap(ser.Info) \/ OutOfRange(ser.Info))
        => /\ ser.err = "InvalidSignatureLayout"
           /\ ser.m_ResourceBindings = <<>>
           /\ ~ser.ub

\* A call returned for a backend that has no case: undefined, not a
\* backend, or not compiled in.
NoCaseReturned == ser.pc = "done" /\ ser.Info.DeviceType \notin SupportedDevices

\* C24: a call for an undefined, unknown or not compiled-in backend leaves
\* NumBindings = 0 and a null pBindings to its caller and reports no error,
\* whatever the call before on the same device returned.
C24_NoCaseReturnsEmpty ==
    NoCaseReturned =>
        /\ ser.NumBindings = 0
        /\ ser.pBindings = "null"
        /\ ser.err = ""

\* The second call is for the undefined backend and the first one returned
\* three Vulkan bindings.
C24_Witness ==
    /\ NoCaseReturned
    /\ ser.Info.DeviceType = RENDER_DEVICE_TYPE_UNDEFINED
    /\ ser.calls = 2
    /\ ser.returned[1].Info.DeviceType = RENDER_DEVICE_TYPE_VULKAN
    /\ ser.returned[1].NumBindings = 3
    /\ ser.returned[1].pBindings = "data"
    /\ ser.NumBindings = 0

\* The names that the signatures in the slots of this call declare.
DeclaredNames ==
    UNION {{sig.Resources[r].Name : r \in DOMAIN sig.Resources}
           \cup {sig.ImmutableSamplers[r].SamplerOrTextureName : r \in DOMAIN sig.ImmutableSamplers} :
           sig \in SlotSignatures}

\* C25: a call returns what every earlier call on the device with the same
\* arguments returned, whatever was called in between, and its list holds
\* only bindings of the signatures of this call: the length handed out is
\* that of the list, and no name of another call's signatures is in it.
C25_HistoryFree ==
    ser.pc = "done" =>
        /\ \A k \in DOMAIN ser.returned :
              ser.returned[k].Info = ser.Info => ser.returned[k] = Returned(ser)
        /\ ser.NumBindings = Len(ser.m_ResourceBindings)
        /\ ser.Info.DeviceType \in SupportedDevices =>
              \A k \in DOMAIN ser.m_ResourceBindings : Names[k] \in DeclaredNames
        /\ ser.Info.DeviceType \notin SupportedDevices => ser.m_ResourceBindings = <<>>

\* The third call has the arguments of the first one (Vulkan, signatures A
\* and B), the second one returned D3D11 bindings of signature B, and the
\* third call returns the three bindings of the first.
C25_Witness ==
    /\ ser.pc = "done"
    /\ ser.calls = 3
    /\ ser.returned[1].Info = ser.Info
    /\ ser.Info.DeviceType = RENDER_DEVICE_TYPE_VULKAN
    /\ ser.returned[2].Info.DeviceType = RENDER_DEVICE_TYPE_D3D11
    /\ ser.returned[2].NumBindings = 2
    /\ Names = <<"A.cb", "A.uav", "B.uav">>

\* The bindings of the list that carry the name of a resource.
BindingsOf(ResDesc) ==
    {k \in DOMAIN ser.m_ResourceBindings : Names[k] = ResDesc.Name}

\* The stages asked for, SHADER_TYPE_UNKNOWN standing for all of them.
AskedStages ==
    IF ser.Info.ShaderStages = SHADER_TYPE_UNKNOWN THEN AllStages ELSE ser.Info.ShaderStages

\* C26: in the returned list, on D3D12 and Vulkan a resource of a signature
\* of the sorted array has one binding, with the resource's whole stage
\* mask, when its mask meets the stages asked for, and none otherwise; on
\* D3D11, GL and GLES it has one binding for each graphics or compute stage
\* that is asked for and in its mask, each with that single stage; a
\* request of SHADER_TYPE_UNKNOWN asks for all stages.
C26_BindingsPerResource ==
    ListReturned =>
        \A sig \in SlotSignatures : \A r \in DOMAIN sig.Resources :
            LET ResDesc == sig.Resources[r]
                Emitted == {ser.m_ResourceBindings[k].ShaderStages : k \in BindingsOf(ResDesc)}
            IN  IF ser.Info.DeviceType \in {RENDER_DEVICE_TYPE_D3D12, RENDER_DEVICE_TYPE_VULKAN}
                THEN /\ Cardinality(BindingsOf(ResDesc))
                          = IF ResDesc.ShaderStages \cap AskedStages # {} THEN 1 ELSE 0
                     /\ Emitted \subseteq {ResDesc.ShaderStages}
                ELSE /\ Emitted = {{stage} : stage \in (AskedStages \cap SupportedStagesMask)
                                                          \cap ResDesc.ShaderStages}
                     /\ Cardinality(BindingsOf(ResDesc)) = Cardinality(Emitted)

\* Signatures A and C on D3D12 with the vertex and compute stages asked
\* for: one binding for each of the three resources that have one of them,
\* with the whole mask of the resource, none for the pixel-only and the
\* ray-generation resources.
C26_Witness ==
    /\ BindingsDone(RENDER_DEVICE_TYPE_D3D12)
    /\ ser.Info.ppResourceSignatures = <<SigA, SigC>>
    /\ ser.Info.ShaderStages = {"VERTEX", "COMPUTE"}
    /\ Names = <<"A.cb", "C.srv", "C.uav">>
    /\ ser.m_ResourceBindings[1].ShaderStages = {"VERTEX", "PIXEL"}
    /\ ser.m_ResourceBindings[3].ShaderStages = {"PIXEL", "COMPUTE"}

\* The Vulkan loop is over and the assertions behind it were evaluated.
VulkanLoopDone ==
    /\ ser.Info # Null
    /\ ser.Info.DeviceType = RENDER_DEVICE_TYPE_VULKAN
    /\ ser.pc \in {"return", "done"}

\* C30 as stated: whatever the signatures of a Vulkan call, both assertions
\* behind the loop hold.
C30_VulkanAssertionsHold == VulkanLoopDone => ser.failed = {}

\* The steps of a thread that read or write the cached-object slots of the
\* shader table (lines 429-439, 463, 769-772).
SlotAccess == {"LoadShaders_Lookup", "LoadShaders_Install", "ClearResourceCache"}

\* C27: once the archive is constructed, no step of any thread changes the
\* block base offset, the length of the shader table or the offset and size
\* of an entry; the table changes only in its cached-object slots, by a step
\* of the thread that holds m_ShadersGuard, and a thread that takes a step
\* that reads or writes a slot holds m_ShadersGuard.
C27_OnlyCacheSlotsChange ==
    [][ctor.pc = "ok" =>
        /\ m_BaseOffsets' = m_BaseOffsets
        /\ Len(m_Shaders') = Len(m_Shaders)
        /\ \A k \in DOMAIN m_Shaders :
              /\ m_Shaders'[k].Offset = m_Shaders[k].Offset
              /\ m_Shaders'[k].Size = m_Shaders[k].Size
        /\ m_Shaders' # m_Shaders =>
              \E t \in m_ShadersGuard : th[t].pc \in SlotAccess /\ th'[t] # th[t]
        /\ \A t \in 1..NumThreads :
              (th[t].pc \in SlotAccess /\ th'[t] # th[t]) => m_ShadersGuard = {t}]_vars

\* Thread 1 is about to install a shader it constructed, under the lock,
\* after a call of ClearResourceCache and while the first entry holds a
\* cached shader.
C27_Witness ==
    /\ ctor.pc = "ok"
    /\ th[1].pc = "LoadShaders_Install"
    /\ m_ShadersGuard = {1}
    /\ hist.cleared
    /\ m_Shaders[1].pRes # Null
    /\ m_Shaders[2].pRes = Null

\* The steps at which a thread waits for m_ShadersGuard inside a call
\* (lines 427, 462).
LockWait == {"LoadShaders_Lock", "LoadShaders_WriteLock"}

DeviceDataRead(t) == th[t].pc = "LoadShaders"

\* C29 as stated: when GetDeviceSpecificData succeeds, the bytes from block
\* base + offset to block base + offset + size lie inside the archive, also
\* for headers whose sums do not fit the unsigned word.
C29_ReadRangeInsideArchive ==
    \A t \in 1..NumThreads :
        DeviceDataRead(t) =>
            m_BaseOffsets + th[t].PSO.pHeader.Offset + th[t].PSO.pHeader.Size <= archive.Size

\* The binding indices of the signatures of the call are pairwise distinct
\* and are slots of the array.
DistinctInRange(Info) ==
    /\ ~OutOfRange(Info)
    /\ Cardinality(BindingIndices(Info)) = Len(Info.ppResourceSignatures)

\* C31: when the binding indices of the signatures are pairwise distinct
\* and in range, a call returns the list that every earlier call with the
\* same signatures in another order of the array, the same backend, stages
\* and render-target count returned.
C31_OrderOfArrayIrrelevant ==
    (ser.pc = "done" /\ DistinctInRange(ser.Info)) =>
        \A k \in DOMAIN ser.returned :
            /\ ser.returned[k].Bindings = ser.m_ResourceBindings
            /\ ser.returned[k].NumBindings = ser.NumBindings

\* Signatures C, B, A were passed to Vulkan in that order, then as A, C, B,
\* and the second call returned the seven bindings of the first, those of
\* A first.
C31_Witness ==
    /\ BindingsDone(RENDER_DEVICE_TYPE_VULKAN)
    /\ ser.calls = 2
    /\ ser.returned[1].Info.ppResourceSignatures = <<SigC, SigB, SigA>>
    /\ ser.Info.ppResourceSignatures = <<SigA, SigC, SigB>>
    /\ ser.Info.ShaderStages = SHADER_TYPE_UNKNOWN
    /\ Names = <<"A.cb", "A.uav", "B.uav", "C.srv", "C.arr", "C.uav", "C.rt">>
    /\ ser.returned[1].Bindings = ser.m_ResourceBindings

\* The shader in slot k was constructed from a snapshot that LoadShaders
\* took before a call of ClearResourceCache that has returned since (the
\* shader names the thread, call and position that constructed it).
StaleShader(k) ==
    /\ m_Shaders[k].pRes # Null
    /\ <<m_Shaders[k].pRes[2], m_Shaders[k].pRes[3], m_Shaders[k].pRes[4]>> \in hist.stale

\* C32 as stated: no slot of the shader table holds a shader that was
\* constructed from a snapshot taken before a clear that has returned.
C32_NoInstallFromSnapshotBeforeClear ==
    \A k \in DOMAIN m_Shaders : ~StaleShader(k)

\* C32, amended: the step of ClearResourceCache leaves every slot empty, and
\* an empty slot is filled only by the install step of a thread that holds
\* m_ShadersGuard, with the shader that thread constructed for the index of
\* the slot; the install step does not look at the slot or at what happened
\* since the snapshot.
C32_ClearedSlotFilledByInstallOnly ==
    [][/\ (\E t \in 1..NumThreads : th[t].pc = "ClearResourceCache" /\ th'[t].pc = "idle")
          => \A k \in DOMAIN m_Shaders' : m_Shaders'[k].pRes = Null
       /\ \A k \in DOMAIN m_Shaders :
             (ctor.pc = "ok" /\ m_Shaders[k].pRes = Null /\ m_Shaders'[k].pRes # Null)
                => \E t \in m_ShadersGuard :
                      /\ th[t].pc = "LoadShaders_Install"
                      /\ th[t].PSO.ShaderIndices[th[t].i] + 1 = k
                      /\ m_Shaders'[k].pRes = th[t].pShader]_vars

\* The first slot holds the shader that thread 1 constructed from a
\* snapshot taken before thread 2's call of ClearResourceCache, installed
\* after that call returned.
C32_Witness ==
    /\ 1 \in DOMAIN m_Shaders
    /\ StaleShader(1)
    /\ m_Shaders[1].pRes[2] = 1
    /\ hist.cleared
    /\ th[2].pc = "idle"
    /\ th[2].calls = 0

\* The table slot of the shader index at position k of a call's list.
CacheSlot(t, k) == m_Shaders[th[t].PSO.ShaderIndices[k] + 1].pRes

\* The call of thread t failed because the device returned no shader for
\* the index at position th[t].i.
ShaderConstructionFailed(t) ==
    /\ Failed(t) /\ th[t].err = "DeviceConstructionFailed"
    /\ th[t].log[Len(th[t].log)] = "CreateShader"

\* C33: with one thread, when a pipeline unpack fails, every shader it had
\* constructed or taken from the cache is in its slot of the shader table; a
\* slot is emptied only by ClearResourceCache; a LoadShaders that finds the
\* slot of an index filled takes that shader and does not construct one; a
\* shader whose construction returned null is never installed: the call
\* fails before the install step and its slot stays empty.
C33_FailedUnpackKeepsShaders ==
    /\ [](\A t \in 1..NumThreads :
            /\ Failed(t) =>
                  \A k \in DOMAIN th[t].Shaders :
                      th[t].Shaders[k] # Null => CacheSlot(t, k) = th[t].Shaders[k]
            /\ th[t].pc \in {"LoadShaders_WriteLock", "LoadShaders_Install"}
                  => th[t].pShader # Null
            /\ ShaderConstructionFailed(t)
                  => (th[t].Shaders[th[t].i] = Null /\ CacheSlot(t, th[t].i) = Null))
    /\ [][/\ \A k \in DOMAIN m_Shaders :
               (m_Shaders[k].pRes # Null /\ m_Shaders'[k].pRes # m_Shaders[k].pRes)
                  => (ClearReturns /\ m_Shaders'[k].pRes = Null)
          /\ \A t \in 1..NumThreads :
               (th[t].pc = "LoadShaders_Lookup"
                  /\ th[t].PSO.ShaderIndices[th[t].i] < Len(m_Shaders)
                  /\ CacheSlot(t, th[t].i) # Null)
                  => /\ th'[t].pc # "LoadShaders_Create"
                     /\ th'[t].Shaders[th[t].i] = CacheSlot(t, th[t].i)
                     /\ th'[t].log = th[t].log
                     /\ hist'.nCreateShader = hist.nCreateShader]_vars

\* The first call failed when the device returned no shader for index 1,
\* after it had installed the shader of index 0; the second call took that
\* shader from the cache, and the device was asked for it once.
C33_Witness ==
    \E t \in 1..NumThreads :
        /\ Unpacking(t) /\ th[t].calls = 2 /\ ~hist.cleared
        /\ hist.nCreateShader[2] = 1 /\ m_Shaders[2].pRes = Null
        /\ Len(th[t].Shaders) > 0
        /\ th[t].Shaders[1] = <<"shader", t, 1, 1, 0>>
        /\ hist.nCreateShader[1] = 1
        /\ th[t].pc = "SetShaders"

\* The positions of a call's list of shader indices whose index is at or
\* beyond the length of the shader table.
BadPositions(t) ==
    {k \in DOMAIN th[t].PSO.ShaderIndices : th[t].PSO.ShaderIndices[k] >= Len(m_Shaders)}

FirstBadPosition(t) == CHOOSE k \in BadPositions(t) : \A j \in BadPositions(t) : k <= j

LogOf(t) == {th[t].log[k] : k \in DOMAIN th[t].log}

\* C34: with one thread, a pipeline unpack whose list of shader indices
\* holds an index at or beyond the length of the shader table never gets
\* past LoadShaders: the device is never asked for the pipeline, the call
\* ends failed and writes no pipeline to its out-parameter; when LoadShaders
\* arrives at the first such position it fails there, the mutex is free
\* afterwards, and the shaders of the earlier positions are constructed and
\* in their slots of the shader table.
C34_IndexPastTableFails ==
    \A t \in 1..NumThreads :
        (Unpacking(t) /\ BadPositions(t) # {}) =>
            /\ th[t].pc \notin {"SetShaders", "ModifyPipelineStateCreateInfo", "CreatePipelineState"}
            /\ "CreatePipelineState" \notin LogOf(t)
            /\ th[t].pc \in {"LoadShaders_Lock", "LoadShaders_Lookup"}
                  => th[t].i <= FirstBadPosition(t)
            /\ th[t].pc \in {"LoadShaders_Create", "LoadShaders_WriteLock", "LoadShaders_Install"}
                  => th[t].i < FirstBadPosition(t)
            /\ th[t].pc = "done" =>
                  /\ th[t].status = "failed"
                  /\ th[t].out = th[t].out0
                  /\ GetResource(maps[th[t].Type], th[t].Name) = Null
                  /\ th[t].err = "ShaderIndex" =>
                        /\ th[t].i = FirstBadPosition(t)
                        /\ t \notin m_ShadersGuard
                        /\ \A k \in 1..(th[t].i - 1) :
                              /\ th[t].Shaders[k] # Null
                              /\ CacheSlot(t, k) = th[t].Shaders[k]

\* The unpack of GIdx (shader indices 0 and 9, five shaders in the table)
\* failed at the second position after it had constructed and installed the
\* shader of index 0.
C34_Witness ==
    \E t \in 1..NumThreads :
        /\ Failed(t) /\ th[t].Name = "GIdx" /\ th[t].err = "ShaderIndex"
        /\ th[t].i = 2
        /\ th[t].Shaders[1] = <<"shader", t, th[t].calls, 1, 0>>
        /\ CacheSlot(t, 1) = th[t].Shaders[1]
        /\ "CreateShader" \in LogOf(t)
        /\ m_ShadersGuard = {}
=============================================================================
